---- MODULE Spec2Model ----
(***************************************************************************)
(* Model of the sales reporting API (routes/sales.ts, utils, constants,    *)
(* db/queries): one HTTP request at a time is taken through its route      *)
(* handler: the synchronous part (parameter parsing and validation, up to  *)
(* the awaited query function), the outcome of the query function, and the *)
(* response the handler sends.  The query functions are modelled from the  *)
(* statement they build to the object they return; the statement is        *)
(* answered by the rows of a small database.  seedDatabase (seed.ts) is    *)
(* modelled await by await, run after run.                                 *)
(*                                                                         *)
(* Strings are sequences of one-character strings, so that the regular     *)
(* expression, parseInt and the lexicographic comparison are computed as   *)
(* the code computes them.  An optional value (T | undefined) is a set:    *)
(* {} is undefined, {x} is the value x.                                    *)
(***************************************************************************)
EXTENDS Integers, Sequences, FiniteSets, TLC

VARIABLES
  pc,         \* where the handler is: "idle" (no request), "awaiting" (at
              \* its await of the query function), "done" (returned)
  req,        \* the request: its route and req.query
  calls,      \* the query functions the handler has called, with arguments
  outcome,    \* how the awaited call ended: resolved value or thrown error
  responses,  \* the responses the handler has sent
  logs,       \* what the handler has written with console.error
  utilIn,     \* the argument of a utility function applied on its own
  utilOut,    \* its result (undefined before the call)
  db,         \* the database: the four tables and their rows
  sent,       \* the statements the request has handed to query()
  seed        \* the run of seedDatabase: where it is, and the runs so far

vars == <<pc, req, calls, outcome, responses, logs, utilIn, utilOut, db, sent, seed>>

(***************************************************************************)
(* Characters and strings                                                  *)
(***************************************************************************)

\* The characters the model's strings are made of, in increasing UTF-16
\* code unit order (the order JavaScript's < and > on strings compare by).
CharOrder ==
  << " ", "+", "-", ".", "/",
     "0", "1", "2", "3", "4", "5", "6", "7", "8", "9",
     "D", "M", "W", "Y",
     "a", "b", "c", "d", "e", "f", "g", "h", "i", "j", "k", "l", "m",
     "n", "o", "p", "q", "r", "s", "t", "u", "v", "w", "x", "y", "z" >>

Code(c) == CHOOSE i \in DOMAIN CharOrder : CharOrder[i] = c

DigitChars == <<"0", "1", "2", "3", "4", "5", "6", "7", "8", "9">>

IsDigit(c) == \E i \in DOMAIN DigitChars : DigitChars[i] = c

DigitVal(c) == (CHOOSE i \in DOMAIN DigitChars : DigitChars[i] = c) - 1

\* a < b on JavaScript strings: the first differing code unit decides, and a
\* proper prefix is smaller.
StrLT(a, b) ==
  \E i \in 1..Len(b) :
    /\ \A j \in 1..(i - 1) : j <= Len(a) /\ a[j] = b[j]
    /\ \/ i = Len(a) + 1
       \/ i <= Len(a) /\ Code(a[i]) < Code(b[i])

\* a > b on strings, but true of equal strings as well (>= written for >).
StrGT_OrEqual(a, b) == ~StrLT(a, b)

\* a > b on JavaScript strings (routes/sales.ts: startDate > endDate).
StrGT(a, b) == StrLT(b, a)

None == {}

Some(x) == {x}

IsSome(o) == o # {}

\* The value of a defined optional.
Val(o) == CHOOSE x \in o : TRUE

(***************************************************************************)
(* constants/index.ts                                                      *)
(***************************************************************************)

HTTP_OK == 200

HTTP_BAD_REQUEST == 400

HTTP_INTERNAL_ERROR == 500

DEFAULT_LIMIT == 10

MAX_LIMIT == 100

MIN_LIMIT == 1

GDay == <<"d", "a", "y">>

GWeek == <<"w", "e", "e", "k">>

GMonth == <<"m", "o", "n", "t", "h">>

GQuarter == <<"q", "u", "a", "r", "t", "e", "r">>

GYear == <<"y", "e", "a", "r">>

VALID_GRANULARITIES == <<GDay, GWeek, GMonth, GQuarter, GYear>>

\* DATE_REGEX.test(s) for /^\d{4}-\d{2}-\d{2}$/
DATE_REGEX_test(s) ==
  /\ Len(s) = 10
  /\ \A i \in {1, 2, 3, 4, 6, 7, 9, 10} : IsDigit(s[i])
  /\ s[5] = "-"
  /\ s[8] = "-"

(***************************************************************************)
(* utils                                                                   *)
(***************************************************************************)

RECURSIVE DigitsValue(_, _, _)
\* The number written by the digits s[from..to].
DigitsValue(s, from, to) ==
  IF to < from THEN 0
  ELSE 10 * DigitsValue(s, from, to - 1) + DigitVal(s[to])

\* !isNaN(new Date(s).getTime()) for a string that matched DATE_REGEX, as
\* the Node.js runtime (V8) evaluates it: the ISO date parser takes a month
\* in 1..12 and a day in 1..31, whatever the month, and a day past the end
\* of the month rolls over into the next one (2021-02-30 is 2021-03-02).
DateParses(s) ==
  LET month == DigitsValue(s, 6, 7)
      day == DigitsValue(s, 9, 10)
  IN  month \in 1..12 /\ day \in 1..31

isValidDate(s) ==
  IF ~DATE_REGEX_test(s) THEN FALSE ELSE DateParses(s)

\* A comparison that ignores the case of the first letter of "month".
isValidGranularity_NoCase(o) ==
  /\ IsSome(o)
  /\ \E i \in DOMAIN VALID_GRANULARITIES :
       \/ VALID_GRANULARITIES[i] = Val(o)
       \/ /\ Len(Val(o)) = Len(VALID_GRANULARITIES[i])
          /\ Len(Val(o)) > 0
          /\ Val(o)[1] = "M"
          /\ VALID_GRANULARITIES[i][1] = "m"
          /\ \A j \in 2..Len(Val(o)) : Val(o)[j] = VALID_GRANULARITIES[i][j]

\* isValidGranularity on string | undefined: undefined is no string.
isValidGranularity(o) ==
  /\ IsSome(o)
  /\ \E i \in DOMAIN VALID_GRANULARITIES : VALID_GRANULARITIES[i] = Val(o)

(***************************************************************************)
(* The calendar                                                            *)
(***************************************************************************)

\* Whether year y is a leap year.
IsLeapYear(y) == (y % 4 = 0 /\ y % 100 # 0) \/ y % 400 = 0

DaysInMonth(y, m) ==
  IF m = 2 THEN (IF IsLeapYear(y) THEN 29 ELSE 28)
  ELSE IF m \in {4, 6, 9, 11} THEN 30 ELSE 31

\* A string of the form YYYY-MM-DD that names a day of the calendar.
IsCalendarDate(s) ==
  /\ Len(s) = 10
  /\ \A i \in 1..10 : IF i \in {5, 8} THEN s[i] = "-" ELSE IsDigit(s[i])
  /\ LET y == DigitsValue(s, 1, 4)
         m == DigitsValue(s, 6, 7)
         d == DigitsValue(s, 9, 10)
     IN  m \in 1..12 /\ d \in 1..DaysInMonth(y, m)

\* The day a calendar date names, as the number YYYYMMDD: calendar dates are
\* ordered as these numbers are.
DateNumber(s) ==
  10000 * DigitsValue(s, 1, 4) + 100 * DigitsValue(s, 6, 7) + DigitsValue(s, 9, 10)

\* A day of the calendar as the DATE column of the sales table holds it.
Day(y, m, d) == [y |-> y, m |-> m, d |-> d]

\* Days are ordered as the numbers YYYYMMDD.
DayOrd(day) == 10000 * day.y + 100 * day.m + day.d

\* The day before a day.
DayBefore(day) ==
  IF day.d > 1 THEN Day(day.y, day.m, day.d - 1)
  ELSE IF day.m > 1 THEN Day(day.y, day.m - 1, DaysInMonth(day.y, day.m - 1))
  ELSE Day(day.y - 1, 12, 31)

RECURSIVE DaysBefore(_, _)
\* The day n days before a day.
DaysBefore(day, n) == IF n = 0 THEN day ELSE DaysBefore(DayBefore(day), n - 1)

\* The number of days from 0001-01-01 (day 1, a Monday) to a day.
DayCount(day) ==
  LET y == day.y - 1
      before == [m \in 1..12 |-> DaysInMonth(day.y, m)]
      RECURSIVE Months(_)
      Months(m) == IF m = 0 THEN 0 ELSE before[m] + Months(m - 1)
  IN  365 * y + (y \div 4) - (y \div 100) + (y \div 400) + Months(day.m - 1) + day.d

\* The day of the week of a day: 0 for Monday .. 6 for Sunday.
WeekDay(day) == (DayCount(day) - 1) % 7

(***************************************************************************)
(* Raw query-string values (req.query.<name>): absent, a string (possibly  *)
(* empty), or something that is no string (a repeated key gives an array). *)
(***************************************************************************)

Absent == [kind |-> "absent", s |-> <<>>]

Str(s) == [kind |-> "string", s |-> s]

NonString == [kind |-> "other", s |-> <<>>]

parseStringParam(raw) ==
  IF raw.kind = "string" /\ Len(raw.s) > 0 THEN Some(raw.s) ELSE None

\* Index of the first character that is no white space (Len + 1 if none).
FirstNonSpace(s) ==
  CHOOSE i \in 1..(Len(s) + 1) :
    /\ \A j \in 1..(i - 1) : s[j] = " "
    /\ i = Len(s) + 1 \/ s[i] # " "

\* Index of the last digit of the run of digits starting at from (from - 1
\* if there is none).
DigitsEnd(s, from) ==
  CHOOSE k \in (from - 1)..Len(s) :
    /\ \A j \in from..k : IsDigit(s[j])
    /\ k = Len(s) \/ ~IsDigit(s[k + 1])

\* parseInt(s, 10): leading white space, an optional sign, then the longest
\* run of decimal digits; NaN (here None) when there is no digit.
JsParseInt(s) ==
  LET start == FirstNonSpace(s)
      signed == start <= Len(s) /\ s[start] \in {"+", "-"}
      from == IF signed THEN start + 1 ELSE start
      to == DigitsEnd(s, from)
      magnitude == DigitsValue(s, from, to)
  IN  IF to < from THEN None
      ELSE IF signed /\ s[start] = "-" THEN Some(0 - magnitude)
      ELSE Some(magnitude)

\* parseIntParam without the isNaN test: a string that is no number reaches
\* the caller as a number (0 stands for it) instead of undefined.
parseIntParam_NoNaNTest(raw) ==
  IF raw.kind # "string" THEN None
  ELSE IF IsSome(JsParseInt(raw.s)) THEN JsParseInt(raw.s) ELSE Some(0)

parseIntParam(raw) ==
  IF raw.kind # "string" THEN None ELSE JsParseInt(raw.s)

(***************************************************************************)
(* Responses                                                               *)
(***************************************************************************)

\* A piece of a message: literal text of the program, or a string value
\* interpolated into a template.
Lit(text) == [lit |-> text, val |-> <<>>]

Interp(s) == [lit |-> "", val |-> s]

INVALID_DATE_FORMAT == Lit("must be in YYYY-MM-DD format")

INVALID_DATE_RANGE_MSG == <<Lit("start_date must be before end_date")>>

INVALID_LIMIT_MSG == <<Lit("limit must be between 1 and 100")>>

INVALID_OFFSET_MSG == <<Lit("offset must be a non-negative integer")>>

\* res.json(error) without res.status(status): the error leaves as a 200.
sendError_NoStatus(status, code, message) ==
  [status |-> HTTP_OK,
   body |-> [success |-> FALSE, error |-> [code |-> code, message |-> message]]]

\* sendError: res.status(status).json({success: false, error: {code, message}})
sendError(status, code, message) ==
  [status |-> status,
   body |-> [success |-> FALSE, error |-> [code |-> code, message |-> message]]]

\* res.json(response) for a response without meta (status 200 by default).
JsonOk(data) ==
  [status |-> HTTP_OK, body |-> [success |-> TRUE, data |-> data]]

\* res.json(response) for a response with meta.
JsonOkMeta(data, meta) ==
  [status |-> HTTP_OK, body |-> [success |-> TRUE, data |-> data, meta |-> meta]]

(***************************************************************************)
(* The synchronous part of each handler: from the parameters to either the *)
(* validation error it sends (and returns) or the query function it calls  *)
(* and awaits.  The result is what the handler has done when it yields.    *)
(***************************************************************************)

Reject(response) == [calls |-> <<>>, responses |-> <<response>>]

Invoke(fn, args) == [calls |-> <<[fn |-> fn, args |-> args]>>, responses |-> <<>>]

\* limit <= MIN_LIMIT written for limit < MIN_LIMIT.
LimitOutOfRange_OffByOne(limit) == limit <= MIN_LIMIT \/ limit > MAX_LIMIT

LimitOutOfRange(limit) == limit < MIN_LIMIT \/ limit > MAX_LIMIT

\* offset <= 0 written for offset < 0.
OffsetNegative_OrZero(offset) == offset <= 0

OffsetNegative(offset) == offset < 0

InvalidStartDate ==
  sendError(HTTP_BAD_REQUEST, "INVALID_DATE", <<Lit("start_date "), INVALID_DATE_FORMAT>>)

InvalidEndDate ==
  sendError(HTTP_BAD_REQUEST, "INVALID_DATE", <<Lit("end_date "), INVALID_DATE_FORMAT>>)

InvalidDateRange ==
  sendError(HTTP_BAD_REQUEST, "INVALID_DATE_RANGE", INVALID_DATE_RANGE_MSG)

TimeseriesSync(q) ==
  LET granularityParam == parseStringParam(q.granularity)
      startDate == parseStringParam(q.start_date)
      endDate == parseStringParam(q.end_date)
      userId == parseIntParam(q.user_id)
      groupId == parseIntParam(q.group_id)
      granularity ==
        IF isValidGranularity(granularityParam) THEN Val(granularityParam) ELSE GMonth
  IN  IF IsSome(granularityParam) /\ ~isValidGranularity(granularityParam)
      THEN Reject(sendError(HTTP_BAD_REQUEST, "INVALID_GRANULARITY",
             <<Lit("Invalid granularity. Must be one of: "),
               Lit("day, week, month, quarter, year")>>))
      ELSE IF IsSome(startDate) /\ ~isValidDate(Val(startDate))
      THEN Reject(InvalidStartDate)
      ELSE IF IsSome(endDate) /\ ~isValidDate(Val(endDate))
      THEN Reject(InvalidEndDate)
      ELSE IF IsSome(startDate) /\ IsSome(endDate) /\ StrGT(Val(startDate), Val(endDate))
      THEN Reject(InvalidDateRange)
      ELSE Invoke("getTimeSeries",
             [granularity |-> granularity, startDate |-> startDate,
              endDate |-> endDate, userId |-> userId, groupId |-> groupId])

\* The users handler with the offset check moved behind the query call.
UsersSync_LateOffsetCheck(q) ==
  LET startDate == parseStringParam(q.start_date)
      endDate == parseStringParam(q.end_date)
      userId == parseIntParam(q.user_id)
      limit == parseIntParam(q.limit)
      offset == parseIntParam(q.offset)
  IN  IF IsSome(startDate) /\ ~isValidDate(Val(startDate))
      THEN Reject(InvalidStartDate)
      ELSE IF IsSome(endDate) /\ ~isValidDate(Val(endDate))
      THEN Reject(InvalidEndDate)
      ELSE IF IsSome(startDate) /\ IsSome(endDate) /\ StrGT(Val(startDate), Val(endDate))
      THEN Reject(InvalidDateRange)
      ELSE IF IsSome(limit) /\ LimitOutOfRange(Val(limit))
      THEN Reject(sendError(HTTP_BAD_REQUEST, "INVALID_LIMIT", INVALID_LIMIT_MSG))
      ELSE [calls |-> <<[fn |-> "getUserPerformance",
                        args |-> [startDate |-> startDate, endDate |-> endDate,
                                  userId |-> userId, limit |-> limit,
                                  offset |-> offset]]>>,
            responses |->
              IF IsSome(offset) /\ OffsetNegative(Val(offset))
              THEN <<sendError(HTTP_BAD_REQUEST, "INVALID_OFFSET", INVALID_OFFSET_MSG)>>
              ELSE <<>>]

\* The users handler with the offset checked before the limit.
UsersSync_OffsetFirst(q) ==
  LET startDate == parseStringParam(q.start_date)
      endDate == parseStringParam(q.end_date)
      userId == parseIntParam(q.user_id)
      limit == parseIntParam(q.limit)
      offset == parseIntParam(q.offset)
  IN  IF IsSome(startDate) /\ ~isValidDate(Val(startDate))
      THEN Reject(InvalidStartDate)
      ELSE IF IsSome(endDate) /\ ~isValidDate(Val(endDate))
      THEN Reject(InvalidEndDate)
      ELSE IF IsSome(startDate) /\ IsSome(endDate) /\ StrGT(Val(startDate), Val(endDate))
      THEN Reject(InvalidDateRange)
      ELSE IF IsSome(offset) /\ OffsetNegative(Val(offset))
      THEN Reject(sendError(HTTP_BAD_REQUEST, "INVALID_OFFSET", INVALID_OFFSET_MSG))
      ELSE IF IsSome(limit) /\ LimitOutOfRange(Val(limit))
      THEN Reject(sendError(HTTP_BAD_REQUEST, "INVALID_LIMIT", INVALID_LIMIT_MSG))
      ELSE Invoke("getUserPerformance",
             [startDate |-> startDate, endDate |-> endDate, userId |-> userId,
              limit |-> limit, offset |-> offset])

UsersSync(q) ==
  LET startDate == parseStringParam(q.start_date)
      endDate == parseStringParam(q.end_date)
      userId == parseIntParam(q.user_id)
      limit == parseIntParam(q.limit)
      offset == parseIntParam(q.offset)
  IN  IF IsSome(startDate) /\ ~isValidDate(Val(startDate))
      THEN Reject(InvalidStartDate)
      ELSE IF IsSome(endDate) /\ ~isValidDate(Val(endDate))
      THEN Reject(InvalidEndDate)
      ELSE IF IsSome(startDate) /\ IsSome(endDate) /\ StrGT(Val(startDate), Val(endDate))
      THEN Reject(InvalidDateRange)
      ELSE IF IsSome(limit) /\ LimitOutOfRange(Val(limit))
      THEN Reject(sendError(HTTP_BAD_REQUEST, "INVALID_LIMIT", INVALID_LIMIT_MSG))
      ELSE IF IsSome(offset) /\ OffsetNegative(Val(offset))
      THEN Reject(sendError(HTTP_BAD_REQUEST, "INVALID_OFFSET", INVALID_OFFSET_MSG))
      ELSE Invoke("getUserPerformance",
             [startDate |-> startDate, endDate |-> endDate, userId |-> userId,
              limit |-> limit, offset |-> offset])

GroupsSync(q) ==
  LET startDate == parseStringParam(q.start_date)
      endDate == parseStringParam(q.end_date)
      groupId == parseIntParam(q.group_id)
  IN  IF IsSome(startDate) /\ ~isValidDate(Val(startDate))
      THEN Reject(InvalidStartDate)
      ELSE IF IsSome(endDate) /\ ~isValidDate(Val(endDate))
      THEN Reject(InvalidEndDate)
      ELSE IF IsSome(startDate) /\ IsSome(endDate) /\ StrGT(Val(startDate), Val(endDate))
      THEN Reject(InvalidDateRange)
      ELSE Invoke("getGroupPerformance",
             [startDate |-> startDate, endDate |-> endDate, groupId |-> groupId])

\* PAGINATION.MAX_LIMIT written for PAGINATION.DEFAULT_LIMIT.
LeaderboardLimit_WrongDefault(raw) ==
  LET parsed == parseIntParam(raw)
  IN  IF IsSome(parsed) THEN Val(parsed) ELSE MAX_LIMIT

\* parseIntParam(req.query.limit) ?? PAGINATION.DEFAULT_LIMIT
LeaderboardLimit(raw) ==
  LET parsed == parseIntParam(raw)
  IN  IF IsSome(parsed) THEN Val(parsed) ELSE DEFAULT_LIMIT

LeaderboardSync(q) ==
  LET startDate == parseStringParam(q.start_date)
      endDate == parseStringParam(q.end_date)
      limit == LeaderboardLimit(q.limit)
  IN  IF IsSome(startDate) /\ ~isValidDate(Val(startDate))
      THEN Reject(InvalidStartDate)
      ELSE IF IsSome(endDate) /\ ~isValidDate(Val(endDate))
      THEN Reject(InvalidEndDate)
      ELSE IF IsSome(startDate) /\ IsSome(endDate) /\ StrGT(Val(startDate), Val(endDate))
      THEN Reject(InvalidDateRange)
      ELSE IF LimitOutOfRange(limit)
      THEN Reject(sendError(HTTP_BAD_REQUEST, "INVALID_LIMIT", INVALID_LIMIT_MSG))
      ELSE Invoke("getLeaderboard",
             [startDate |-> startDate, endDate |-> endDate, limit |-> limit])

SummarySync(q) ==
  LET startDate == parseStringParam(q.start_date)
      endDate == parseStringParam(q.end_date)
  IN  IF IsSome(startDate) /\ ~isValidDate(Val(startDate))
      THEN Reject(InvalidStartDate)
      ELSE IF IsSome(endDate) /\ ~isValidDate(Val(endDate))
      THEN Reject(InvalidEndDate)
      ELSE IF IsSome(startDate) /\ IsSome(endDate) /\ StrGT(Val(startDate), Val(endDate))
      THEN Reject(InvalidDateRange)
      ELSE Invoke("getSummaryStats", [startDate |-> startDate, endDate |-> endDate])

\* The first date of the list that is no valid date, if any (the for loop of
\* the compare handler returns at the first one).
FirstInvalidDate(dates) ==
  LET bad == {i \in DOMAIN dates : ~isValidDate(dates[i])}
  IN  IF bad = {} THEN None
      ELSE Some(dates[CHOOSE i \in bad : \A j \in bad : i <= j])

\* The compare handler with the format check of the bounds that are present
\* made before the check that all four are present.
CompareSync_FormatFirst(q) ==
  LET currentStart == parseStringParam(q.current_start)
      currentEnd == parseStringParam(q.current_end)
      previousStart == parseStringParam(q.previous_start)
      previousEnd == parseStringParam(q.previous_end)
      given == currentStart \cup currentEnd \cup previousStart \cup previousEnd
  IN  IF \E d \in given : ~isValidDate(d)
      THEN Reject(sendError(HTTP_BAD_REQUEST, "INVALID_DATE",
             <<Lit("Invalid date format: "),
               Interp(CHOOSE d \in given : ~isValidDate(d)),
               Lit(". Use YYYY-MM-DD")>>))
      ELSE IF ~IsSome(currentStart) \/ ~IsSome(currentEnd)
              \/ ~IsSome(previousStart) \/ ~IsSome(previousEnd)
      THEN Reject(sendError(HTTP_BAD_REQUEST, "MISSING_PARAMS",
             <<Lit("All date parameters are required: current_start, current_end, previous_start, previous_end")>>))
      ELSE Invoke("getPeriodComparison",
             [currentStart |-> Val(currentStart), currentEnd |-> Val(currentEnd),
              previousStart |-> Val(previousStart),
              previousEnd |-> Val(previousEnd)])

CompareSync(q) ==
  LET currentStart == parseStringParam(q.current_start)
      currentEnd == parseStringParam(q.current_end)
      previousStart == parseStringParam(q.previous_start)
      previousEnd == parseStringParam(q.previous_end)
  IN  IF ~IsSome(currentStart) \/ ~IsSome(currentEnd)
         \/ ~IsSome(previousStart) \/ ~IsSome(previousEnd)
      THEN Reject(sendError(HTTP_BAD_REQUEST, "MISSING_PARAMS",
             <<Lit("All date parameters are required: current_start, current_end, previous_start, previous_end")>>))
      ELSE LET dates == <<Val(currentStart), Val(currentEnd),
                          Val(previousStart), Val(previousEnd)>>
               invalid == FirstInvalidDate(dates)
           IN  IF IsSome(invalid)
               THEN Reject(sendError(HTTP_BAD_REQUEST, "INVALID_DATE",
                      <<Lit("Invalid date format: "), Interp(Val(invalid)),
                        Lit(". Use YYYY-MM-DD")>>))
               ELSE Invoke("getPeriodComparison",
                      [currentStart |-> Val(currentStart), currentEnd |-> Val(currentEnd),
                       previousStart |-> Val(previousStart),
                       previousEnd |-> Val(previousEnd)])

(***************************************************************************)
(* What a query function resolves with.  The route handlers pass the rows  *)
(* on as they are; the rows here are of the types of types/index.ts, and a *)
(* result holds up to MaxRows of them.                                     *)
(***************************************************************************)

MaxRows == 2

TwoDigits(n) == <<DigitChars[(n \div 10) + 1], DigitChars[(n % 10) + 1]>>

FourDigits(n) == TwoDigits(n \div 100) \o TwoDigits(n % 100)

\* The text <year><sep><month><sep><day>, two digits for month and day.
DateStr(year, sep, month, day) ==
  FourDigits(year) \o <<sep>> \o TwoDigits(month) \o <<sep>> \o TwoDigits(day)

TimeSeriesDataPoint(i) ==
  [period |-> DateStr(2021, "-", i, 1), total_revenue |-> 1000 * i,
   average_revenue |-> 500, sale_count |-> 2 * i, min_sale |-> 100,
   max_sale |-> 900]

UserPerformance(i) ==
  [user_id |-> i, total_revenue |-> 1000 * (MaxRows + 1 - i),
   average_revenue |-> 500, sale_count |-> 2, min_sale |-> 100, max_sale |-> 900]

GroupPerformance(i) ==
  [group_id |-> i, total_revenue |-> 1000 * (MaxRows + 1 - i),
   average_revenue |-> 500, sale_count |-> 2, user_count |-> 1,
   min_sale |-> 100, max_sale |-> 900]

LeaderboardEntry(i) ==
  [rank |-> i, user_id |-> i, total_revenue |-> 1000 * (MaxRows + 1 - i),
   sale_count |-> 2]

SummaryStats ==
  [total_revenue |-> 3000, total_sales |-> 3, average_sale |-> 1000,
   min_sale |-> 100, max_sale |-> 900, unique_sellers |-> 2,
   date_range |-> [start |-> DateStr(2021, "-", 1, 1),
                   end |-> DateStr(2021, "-", 12, 31)]]

PeriodComparison(args) ==
  [current |-> [period |-> args.currentStart \o <<" ", "t", "o", " ">> \o args.currentEnd,
                total_revenue |-> 2000, sale_count |-> 2, average_revenue |-> 1000],
   previous |-> [period |-> args.previousStart \o <<" ", "t", "o", " ">> \o args.previousEnd,
                 total_revenue |-> 1000, sale_count |-> 1, average_revenue |-> 1000],
   change |-> [revenue_change |-> 1000, revenue_change_pct |-> 100,
               count_change |-> 1, count_change_pct |-> 100]]

\* The values the awaited call may resolve with.
Results(call) ==
  CASE call.fn = "getTimeSeries" ->
         {[i \in 1..n |-> TimeSeriesDataPoint(i)] : n \in 0..MaxRows}
    [] call.fn = "getUserPerformance" ->
         {[data |-> [i \in 1..n |-> UserPerformance(i)], total |-> total] :
            n \in 0..MaxRows, total \in {0, MaxRows, MaxRows + 1}}
    [] call.fn = "getGroupPerformance" ->
         {[i \in 1..n |-> GroupPerformance(i)] : n \in 0..MaxRows}
    [] call.fn = "getLeaderboard" ->
         {[i \in 1..n |-> LeaderboardEntry(i)] : n \in 0..MaxRows}
    [] call.fn = "getSummaryStats" -> {SummaryStats}
    [] call.fn = "getPeriodComparison" -> {PeriodComparison(call.args)}

\* What a failing query function throws (the message of the Error).
Errors == {"Database error", "timeout exceeded when trying to connect"}

(***************************************************************************)
(* The rest of each handler, after the await: the success response, or the *)
(* catch block.                                                            *)
(***************************************************************************)

\* The timeseries response with the period of the first and last bucket
\* preferred to the bounds of the caller.
TimeseriesRespond_BucketFirst(q, data) ==
  LET startDate == parseStringParam(q.start_date)
      endDate == parseStringParam(q.end_date)
  IN  JsonOkMeta(data,
        [total |-> Len(data),
         period |->
           [start |-> IF Len(data) > 0 THEN data[1].period
                      ELSE IF IsSome(startDate) THEN Val(startDate) ELSE <<>>,
            end |-> IF Len(data) > 0 THEN data[Len(data)].period
                    ELSE IF IsSome(endDate) THEN Val(endDate) ELSE <<>>]])

TimeseriesRespond(q, data) ==
  LET startDate == parseStringParam(q.start_date)
      endDate == parseStringParam(q.end_date)
  IN  JsonOkMeta(data,
        [total |-> Len(data),
         period |->
           [start |-> IF IsSome(startDate) THEN Val(startDate)
                      ELSE IF Len(data) > 0 THEN data[1].period ELSE <<>>,
            end |-> IF IsSome(endDate) THEN Val(endDate)
                    ELSE IF Len(data) > 0 THEN data[Len(data)].period ELSE <<>>]])

UsersRespond(q, result) ==
  JsonOkMeta(result.data,
    [total |-> result.total, limit |-> parseIntParam(q.limit),
     offset |-> parseIntParam(q.offset)])

GroupsRespond(q, data) == JsonOkMeta(data, [total |-> Len(data)])

LeaderboardRespond(q, data) == JsonOkMeta(data, [total |-> Len(data)])

SummaryRespond(q, data) == JsonOk(data)

CompareRespond(q, data) == JsonOk(data)

Respond(r, result) ==
  CASE r.route = "timeseries" -> TimeseriesRespond(r.query, result)
    [] r.route = "users" -> UsersRespond(r.query, result)
    [] r.route = "groups" -> GroupsRespond(r.query, result)
    [] r.route = "leaderboard" -> LeaderboardRespond(r.query, result)
    [] r.route = "summary" -> SummaryRespond(r.query, result)
    [] r.route = "compare" -> CompareRespond(r.query, result)

\* The label each catch block logs the error under.
CatchLabel(route) ==
  CASE route = "timeseries" -> "Error fetching time series data:"
    [] route = "users" -> "Error fetching user performance:"
    [] route = "groups" -> "Error fetching group performance:"
    [] route = "leaderboard" -> "Error fetching leaderboard:"
    [] route = "summary" -> "Error fetching summary stats:"
    [] route = "compare" -> "Error fetching period comparison:"

\* The message each catch block answers with.
CatchMessage(route) ==
  CASE route = "timeseries" -> "Failed to fetch time series data"
    [] route = "users" -> "Failed to fetch user performance data"
    [] route = "groups" -> "Failed to fetch group performance data"
    [] route = "leaderboard" -> "Failed to fetch leaderboard data"
    [] route = "summary" -> "Failed to fetch summary statistics"
    [] route = "compare" -> "Failed to fetch period comparison"

\* A catch block that answers with the message of the error it caught.
CatchResponse_Leak(route, err) ==
  sendError(HTTP_INTERNAL_ERROR, "INTERNAL_ERROR", <<Lit(err)>>)

\* The response of the catch block of a handler.
CatchResponse(route, err) ==
  sendError(HTTP_INTERNAL_ERROR, "INTERNAL_ERROR", <<Lit(CatchMessage(route))>>)

(***************************************************************************)
(* db/queries: the statement each query function builds and hands to       *)
(* query(text, params).  The text is a sequence of parts: SQL written in   *)
(* the source, a placeholder $n, or a value interpolated into the text.    *)
(***************************************************************************)

Sql(text) == [kind |-> "sql", text |-> text, n |-> 0, val |-> <<>>]

\* The placeholder $n.
Ph(n) == [kind |-> "placeholder", text |-> "", n |-> n, val |-> <<>>]

\* A value written into the text by the template (${value}).
Txt(s) == [kind |-> "value", text |-> "", n |-> 0, val |-> s]

\* The values of the parameter list: strings and numbers.
PStr(s) == [type |-> "string", s |-> s, n |-> 0]

PNum(n) == [type |-> "number", s |-> <<>>, n |-> n]

\* if (startDate), if (endDate): a string that is defined and not empty.
TruthyStr(o) == IsSome(o) /\ Val(o) # <<>>

\* if (userId !== undefined): a number that is defined, 0 included.
TruthyNum_Defined(o) == IsSome(o)

\* if (userId), if (groupId): a number that is defined and not 0.
TruthyNum(o) == IsSome(o) /\ Val(o) # 0

\* const params = []; let paramIndex = 1; const conditions = [];
NoFilters == [conditions |-> <<>>, params |-> <<>>, paramIndex |-> 1]

\* A filter pushed with the placeholder of the same position again (the
\* index is not advanced before the next push).
PushFilter_SameIndex(b, column, value) ==
  [conditions |-> Append(b.conditions, <<Sql(column), Ph(b.paramIndex)>>),
   params |-> Append(b.params, value),
   paramIndex |-> b.paramIndex]

\* A filter whose value is written into the text of the condition instead
\* of being pushed on the parameter list.
PushFilter_Inline(b, column, value) ==
  [conditions |-> Append(b.conditions, <<Sql(column), Txt(value.s)>>),
   params |-> b.params,
   paramIndex |-> b.paramIndex]

\* conditions.push(`<column> $${paramIndex}`); params.push(value); paramIndex++
PushFilter(b, column, value) ==
  [conditions |-> Append(b.conditions, <<Sql(column), Ph(b.paramIndex)>>),
   params |-> Append(b.params, value),
   paramIndex |-> b.paramIndex + 1]

\* The same for the last filter of a function, which leaves paramIndex.
PushLastFilter(b, column, value) ==
  [conditions |-> Append(b.conditions, <<Sql(column), Ph(b.paramIndex)>>),
   params |-> Append(b.params, value),
   paramIndex |-> b.paramIndex]

RECURSIVE JoinAnd(_)
\* conditions.join(' AND ')
JoinAnd(conditions) ==
  IF Len(conditions) = 0 THEN <<>>
  ELSE IF Len(conditions) = 1 THEN conditions[1]
  ELSE conditions[1] \o <<Sql(" AND ")>> \o JoinAnd(Tail(conditions))

\* conditions.length > 0 ? 'WHERE ' + conditions.join(' AND ') : ''
WhereClause(conditions) ==
  IF Len(conditions) > 0 THEN <<Sql("WHERE ")>> \o JoinAnd(conditions) ELSE <<>>

\* getSafeDateTruncInterval: the granularity, or a throw (None) when it is
\* not one of VALID_DATE_TRUNC_INTERVALS.
getSafeDateTruncInterval(granularity) ==
  IF \E i \in DOMAIN VALID_GRANULARITIES : VALID_GRANULARITIES[i] = granularity
  THEN Some(granularity) ELSE None

\* getTimeSeries up to query(sql, params): the statement, or None when
\* getSafeDateTruncInterval throws.
getTimeSeriesQuery(args) ==
  LET truncFormat == getSafeDateTruncInterval(args.granularity)
      b1 == IF TruthyStr(args.startDate)
            THEN PushFilter(NoFilters, "s.date >= ", PStr(Val(args.startDate)))
            ELSE NoFilters
      b2 == IF TruthyStr(args.endDate)
            THEN PushFilter(b1, "s.date <= ", PStr(Val(args.endDate)))
            ELSE b1
      b3 == IF TruthyNum(args.userId)
            THEN PushFilter(b2, "s.user_id = ", PNum(Val(args.userId)))
            ELSE b2
      b4 == IF TruthyNum(args.groupId)
            THEN PushLastFilter(b3, "ug.group_id = ", PNum(Val(args.groupId)))
            ELSE b3
      joinClause == IF TruthyNum(args.groupId)
                    THEN <<Sql("JOIN user_groups ug ON s.user_id = ug.user_id")>>
                    ELSE <<>>
  IN  IF truncFormat = None THEN None
      ELSE Some(
        [text |->
           <<Sql("SELECT DATE_TRUNC('"), Txt(Val(truncFormat)),
             Sql("', s.date) as period, SUM(s.amount) as total_revenue, AVG(s.amount) as average_revenue, COUNT(*)::integer as sale_count, MIN(s.amount) as min_sale, MAX(s.amount) as max_sale FROM sales s ")>>
           \o joinClause \o WhereClause(b4.conditions)
           \o <<Sql(" GROUP BY DATE_TRUNC('"), Txt(Val(truncFormat)),
                Sql("', s.date) ORDER BY period ASC")>>,
         params |-> b4.params])

getUserPerformanceQuery(args) ==
  LET b1 == IF TruthyStr(args.startDate)
            THEN PushFilter(NoFilters, "s.date >= ", PStr(Val(args.startDate)))
            ELSE NoFilters
      b2 == IF TruthyStr(args.endDate)
            THEN PushFilter(b1, "s.date <= ", PStr(Val(args.endDate)))
            ELSE b1
      b3 == IF TruthyNum(args.userId)
            THEN PushFilter(b2, "u.id = ", PNum(Val(args.userId)))
            ELSE b2
      limitClause1 ==
        IF IsSome(args.limit) THEN <<Sql(" LIMIT "), Ph(b3.paramIndex)>> ELSE <<>>
      b4 == IF IsSome(args.limit)
            THEN [b3 EXCEPT !.params = Append(@, PNum(Val(args.limit))),
                            !.paramIndex = @ + 1]
            ELSE b3
      limitClause ==
        IF IsSome(args.offset)
        THEN limitClause1 \o <<Sql(" OFFSET "), Ph(b4.paramIndex)>>
        ELSE limitClause1
      params ==
        IF IsSome(args.offset) THEN Append(b4.params, PNum(Val(args.offset)))
        ELSE b4.params
  IN  Some(
        [text |->
           <<Sql("SELECT user_id, user_name, role, total_revenue, average_revenue, sale_count, min_sale, max_sale, total_count FROM ( SELECT u.id as user_id, u.name as user_name, u.role, SUM(s.amount) as total_revenue, AVG(s.amount) as average_revenue, COUNT(*)::integer as sale_count, MIN(s.amount) as min_sale, MAX(s.amount) as max_sale, COUNT(*) OVER()::integer as total_count FROM users u JOIN sales s ON u.id = s.user_id ")>>
           \o WhereClause(b3.conditions)
           \o <<Sql(" GROUP BY u.id, u.name, u.role ) aggregated ORDER BY total_revenue DESC ")>>
           \o limitClause,
         params |-> params])

getGroupPerformanceQuery(args) ==
  LET b1 == IF TruthyStr(args.startDate)
            THEN PushFilter(NoFilters, "s.date >= ", PStr(Val(args.startDate)))
            ELSE NoFilters
      b2 == IF TruthyStr(args.endDate)
            THEN PushFilter(b1, "s.date <= ", PStr(Val(args.endDate)))
            ELSE b1
      b3 == IF TruthyNum(args.groupId)
            THEN PushLastFilter(b2, "g.id = ", PNum(Val(args.groupId)))
            ELSE b2
  IN  Some(
        [text |->
           <<Sql("SELECT g.id as group_id, g.name as group_name, SUM(s.amount) as total_revenue, AVG(s.amount) as average_revenue, COUNT(*)::integer as sale_count, COUNT(DISTINCT ug.user_id)::integer as user_count, MIN(s.amount) as min_sale, MAX(s.amount) as max_sale FROM groups g JOIN user_groups ug ON g.id = ug.group_id JOIN sales s ON ug.user_id = s.user_id ")>>
           \o WhereClause(b3.conditions)
           \o <<Sql(" GROUP BY g.id, g.name ORDER BY total_revenue DESC")>>,
         params |-> b3.params])

\* getLeaderboard: limit is a number (the route always passes one, so the
\* default of the signature is never applied).
getLeaderboardQuery(args) ==
  LET b1 == IF TruthyStr(args.startDate)
            THEN PushFilter(NoFilters, "s.date >= ", PStr(Val(args.startDate)))
            ELSE NoFilters
      b2 == IF TruthyStr(args.endDate)
            THEN PushFilter(b1, "s.date <= ", PStr(Val(args.endDate)))
            ELSE b1
      params == Append(b2.params, PNum(args.limit))
      limitParam == b2.paramIndex
  IN  Some(
        [text |->
           <<Sql("SELECT u.id as user_id, u.name as user_name, u.role, SUM(s.amount) as total_revenue, COUNT(*)::integer as sale_count FROM users u JOIN sales s ON u.id = s.user_id ")>>
           \o WhereClause(b2.conditions)
           \o <<Sql(" GROUP BY u.id, u.name, u.role ORDER BY total_revenue DESC"),
                Sql(" LIMIT "), Ph(limitParam)>>,
         params |-> params])

getSummaryStatsQuery(args) ==
  LET b1 == IF TruthyStr(args.startDate)
            THEN PushFilter(NoFilters, "date >= ", PStr(Val(args.startDate)))
            ELSE NoFilters
      b2 == IF TruthyStr(args.endDate)
            THEN PushLastFilter(b1, "date <= ", PStr(Val(args.endDate)))
            ELSE b1
  IN  Some(
        [text |->
           <<Sql("SELECT SUM(amount) as total_revenue, COUNT(*)::integer as total_sales, AVG(amount) as average_sale, MIN(amount) as min_sale, MAX(amount) as max_sale, COUNT(DISTINCT user_id)::integer as unique_sellers, MIN(date) as first_sale_date, MAX(date) as last_sale_date FROM sales ")>>
           \o WhereClause(b2.conditions),
         params |-> b2.params])

getPeriodComparisonQuery(args) ==
  Some(
    [text |->
       <<Sql("SELECT CASE WHEN date >= "), Ph(1), Sql(" AND date <= "), Ph(2),
         Sql(" THEN 'current' WHEN date >= "), Ph(3), Sql(" AND date <= "), Ph(4),
         Sql(" THEN 'previous' END as period_label, SUM(amount) as total_revenue, COUNT(*)::integer as sale_count, AVG(amount) as average_revenue FROM sales WHERE (date >= "),
         Ph(1), Sql(" AND date <= "), Ph(2), Sql(") OR (date >= "), Ph(3),
         Sql(" AND date <= "), Ph(4), Sql(") GROUP BY period_label")>>,
     params |-> <<PStr(args.currentStart), PStr(args.currentEnd),
                  PStr(args.previousStart), PStr(args.previousEnd)>>])

\* The statement the called query function hands to query(), if it gets
\* that far.
QueryOf(call) ==
  CASE call.fn = "getTimeSeries" -> getTimeSeriesQuery(call.args)
    [] call.fn = "getUserPerformance" -> getUserPerformanceQuery(call.args)
    [] call.fn = "getGroupPerformance" -> getGroupPerformanceQuery(call.args)
    [] call.fn = "getLeaderboard" -> getLeaderboardQuery(call.args)
    [] call.fn = "getSummaryStats" -> getSummaryStatsQuery(call.args)
    [] call.fn = "getPeriodComparison" -> getPeriodComparisonQuery(call.args)

(***************************************************************************)
(* The database and what it answers to a statement.  It holds the four     *)
(* tables of seed.ts: a table is None while it does not exist, else its    *)
(* rows in a sequence.  A sale's date is a Day; NULL is None.  The         *)
(* conditions of a statement are read from its text, and a placeholder     *)
(* gets the parameter of its index.                                        *)
(***************************************************************************)

\* The indices of the text's placeholders.
Placeholders(stmt) ==
  {stmt.text[i].n : i \in {k \in DOMAIN stmt.text : stmt.text[k].kind = "placeholder"}}

\* The server binds a statement whose placeholders are $1..$n for the n
\* parameters it is sent.
Binds(stmt) == Placeholders(stmt) = 1..Len(stmt.params)

HasSql(stmt, text) == \E i \in DOMAIN stmt.text : stmt.text[i] = Sql(text)

\* The parameter bound to the condition `<column> $n` of the text, or None
\* without such a condition.
Bound(stmt, column) ==
  LET at == {i \in DOMAIN stmt.text :
               /\ stmt.text[i] = Sql(column)
               /\ i + 1 \in DOMAIN stmt.text
               /\ stmt.text[i + 1].kind = "placeholder"}
  IN  IF at = {} THEN None
      ELSE Some(stmt.params[stmt.text[(CHOOSE i \in at : TRUE) + 1].n])

\* A parameter compared with a DATE column: the text of a day of the
\* calendar (any other text is an error of the statement).
IsDateParam(p) == p.type = "string" /\ IsCalendarDate(p.s)

DayOfParam(p) ==
  Day(DigitsValue(p.s, 1, 4), DigitsValue(p.s, 6, 7), DigitsValue(p.s, 9, 10))

\* date >= $lo AND date <= $hi, each bound optional.
InRange(day, lo, hi) ==
  /\ IsSome(lo) => DayOrd(day) >= DayOrd(DayOfParam(Val(lo)))
  /\ IsSome(hi) => DayOrd(day) <= DayOrd(DayOfParam(Val(hi)))

\* DATE_TRUNC(interval, date): the first day of the date's day, ISO week
\* (Monday), month, quarter or year.
DateTrunc(interval, day) ==
  CASE interval = GDay -> day
    [] interval = GWeek -> DaysBefore(day, WeekDay(day))
    [] interval = GMonth -> Day(day.y, day.m, 1)
    [] interval = GQuarter -> Day(day.y, 3 * ((day.m - 1) \div 3) + 1, 1)
    [] interval = GYear -> Day(day.y, 1, 1)

\* Rows of a join are pairs <<i, j>>: the sale at index i with the
\* user_groups row at index j (0 when user_groups is not joined).
RECURSIVE SumAmount(_, _)
SumAmount(sales, rows) ==
  IF rows = {} THEN 0
  ELSE LET r == CHOOSE r \in rows : TRUE
       IN  sales[r[1]].amount + SumAmount(sales, rows \ {r})

MinAmount(sales, rows) ==
  LET r == CHOOSE r \in rows : \A o \in rows : sales[r[1]].amount <= sales[o[1]].amount
  IN  sales[r[1]].amount

MaxAmount(sales, rows) ==
  LET r == CHOOSE r \in rows : \A o \in rows : sales[r[1]].amount >= sales[o[1]].amount
  IN  sales[r[1]].amount

\* The decimal text of an integer, as the driver hands over a bigint.
RECURSIVE NatText(_)
NatText(n) ==
  IF n < 10 THEN <<DigitChars[n + 1]>>
  ELSE NatText(n \div 10) \o <<DigitChars[(n % 10) + 1]>>

IntText(n) == IF n < 0 THEN <<"-">> \o NatText(0 - n) ELSE NatText(n)

\* A numeric (the result of AVG) is the fraction num / den.
Numeric(num, den) == [num |-> num, den |-> den]

\* The ways of writing the keys in an order in which total never increases
\* (ORDER BY total_revenue DESC; equal totals come in any order).
Descending(keys, total) ==
  {f \in [1..Cardinality(keys) -> keys] :
     /\ \A i, j \in DOMAIN f : i # j => f[i] # f[j]
     /\ \A i, j \in DOMAIN f : i < j => total[f[i]] >= total[f[j]]}

\* LIMIT limit OFFSET offset on a sequence of rows, each optional.
LimitOffset(rows, limit, offset) ==
  LET from == IF IsSome(offset) THEN Val(offset) + 1 ELSE 1
      upto == IF IsSome(limit) THEN from + Val(limit) - 1 ELSE Len(rows)
  IN  SubSeq(rows, from, IF upto > Len(rows) THEN Len(rows) ELSE upto)

Rows(rows) == [kind |-> "rows", rows |-> rows, err |-> ""]

SqlError(err) == [kind |-> "error", rows |-> <<>>, err |-> err]

\* The sequence of the members of a set of days, earliest first.
Ascending(days) ==
  CHOOSE f \in [1..Cardinality(days) -> days] :
    \A i, j \in DOMAIN f : i < j => DayOrd(f[i]) < DayOrd(f[j])

\* The date parameters of the statement that are no date.
BadDateParams(stmt, columns) ==
  {c \in columns : IsSome(Bound(stmt, c)) /\ ~IsDateParam(Val(Bound(stmt, c)))}

JoinUserGroups == "JOIN user_groups ug ON s.user_id = ug.user_id"

\* What the database answers to the statement of getTimeSeries.
ExecTimeSeries(tables, stmt) ==
  LET sales == Val(tables.sales)
      ug == Val(tables.user_groups)
      join == HasSql(stmt, JoinUserGroups)
      lo == Bound(stmt, "s.date >= ")
      hi == Bound(stmt, "s.date <= ")
      user == Bound(stmt, "s.user_id = ")
      group == Bound(stmt, "ug.group_id = ")
      interval == stmt.text[2].val
      joined == IF join
                THEN {r \in (DOMAIN sales) \X (DOMAIN ug) :
                        sales[r[1]].user_id = ug[r[2]].user_id}
                ELSE (DOMAIN sales) \X {0}
      selected == {r \in joined :
                     /\ InRange(sales[r[1]].date, lo, hi)
                     /\ IsSome(user) => sales[r[1]].user_id = Val(user).n
                     /\ IsSome(group) => ug[r[2]].group_id = Val(group).n}
      periods == {DateTrunc(interval, sales[r[1]].date) : r \in selected}
      ordered == Ascending(periods)
      bucket(p) == {r \in selected : DateTrunc(interval, sales[r[1]].date) = p}
  IN  IF tables.sales = None \/ (join /\ tables.user_groups = None)
      THEN {SqlError("relation does not exist")}
      ELSE IF ~Binds(stmt)
      THEN {SqlError("bind message supplies the wrong number of parameters")}
      ELSE IF BadDateParams(stmt, {"s.date >= ", "s.date <= "}) # {}
      THEN {SqlError("date/time field value out of range")}
      ELSE IF IsSome(group) /\ ~join
      THEN {SqlError("missing FROM-clause entry for table ug")}
      ELSE IF getSafeDateTruncInterval(interval) = None
      THEN {SqlError("unit not recognized for type date")}
      ELSE {Rows([k \in DOMAIN ordered |->
                    LET rows == bucket(ordered[k])
                    IN  [period |-> ordered[k],
                         total_revenue |-> IntText(SumAmount(sales, rows)),
                         average_revenue |->
                           Numeric(SumAmount(sales, rows), Cardinality(rows)),
                         sale_count |-> Cardinality(rows),
                         min_sale |-> MinAmount(sales, rows),
                         max_sale |-> MaxAmount(sales, rows)]])}

\* What the database answers to the inner SELECT that getUserPerformance and
\* getLeaderboard share (users joined with sales, grouped by user): the
\* ids of the users with a selected sale, and the selected sales of each.
UsersWithSales(tables, stmt, userColumn) ==
  LET sales == Val(tables.sales)
      users == Val(tables.users)
      lo == Bound(stmt, "s.date >= ")
      hi == Bound(stmt, "s.date <= ")
      user == Bound(stmt, userColumn)
      selected == {r \in (DOMAIN sales) \X (DOMAIN users) :
                     /\ users[r[2]].id = sales[r[1]].user_id
                     /\ InRange(sales[r[1]].date, lo, hi)
                     /\ IsSome(user) => users[r[2]].id = Val(user).n}
  IN  [keys |-> {r[2] : r \in selected},
       rows |-> [u \in DOMAIN users |-> {r \in selected : r[2] = u}]]

\* The parameter of LIMIT or OFFSET, if the text has one.
ClauseParam(stmt, keyword) ==
  LET p == Bound(stmt, keyword) IN IF IsSome(p) THEN Some(Val(p).n) ELSE None

ExecUserPerformance(tables, stmt) ==
  LET sales == Val(tables.sales)
      users == Val(tables.users)
      grouped == UsersWithSales(tables, stmt, "u.id = ")
      total == [u \in grouped.keys |-> SumAmount(sales, grouped.rows[u])]
      limit == ClauseParam(stmt, " LIMIT ")
      offset == ClauseParam(stmt, " OFFSET ")
      row(u) ==
        [user_id |-> users[u].id, user_name |-> users[u].name, role |-> users[u].role,
         total_revenue |-> IntText(total[u]),
         average_revenue |-> Numeric(total[u], Cardinality(grouped.rows[u])),
         sale_count |-> Cardinality(grouped.rows[u]),
         min_sale |-> MinAmount(sales, grouped.rows[u]),
         max_sale |-> MaxAmount(sales, grouped.rows[u]),
         total_count |-> Cardinality(grouped.keys)]
  IN  IF tables.sales = None \/ tables.users = None
      THEN {SqlError("relation does not exist")}
      ELSE IF ~Binds(stmt)
      THEN {SqlError("bind message supplies the wrong number of parameters")}
      ELSE IF BadDateParams(stmt, {"s.date >= ", "s.date <= "}) # {}
      THEN {SqlError("date/time field value out of range")}
      ELSE IF IsSome(limit) /\ Val(limit) < 0
      THEN {SqlError("LIMIT must not be negative")}
      ELSE IF IsSome(offset) /\ Val(offset) < 0
      THEN {SqlError("OFFSET must not be negative")}
      ELSE {Rows(LimitOffset([k \in DOMAIN order |-> row(order[k])], limit, offset)) :
              order \in Descending(grouped.keys, total)}

ExecLeaderboard(tables, stmt) ==
  LET sales == Val(tables.sales)
      users == Val(tables.users)
      grouped == UsersWithSales(tables, stmt, "u.id = ")
      total == [u \in grouped.keys |-> SumAmount(sales, grouped.rows[u])]
      limit == ClauseParam(stmt, " LIMIT ")
      row(u) ==
        [user_id |-> users[u].id, user_name |-> users[u].name, role |-> users[u].role,
         total_revenue |-> IntText(total[u]),
         sale_count |-> Cardinality(grouped.rows[u])]
  IN  IF tables.sales = None \/ tables.users = None
      THEN {SqlError("relation does not exist")}
      ELSE IF ~Binds(stmt)
      THEN {SqlError("bind message supplies the wrong number of parameters")}
      ELSE IF BadDateParams(stmt, {"s.date >= ", "s.date <= "}) # {}
      THEN {SqlError("date/time field value out of range")}
      ELSE IF IsSome(limit) /\ Val(limit) < 0
      THEN {SqlError("LIMIT must not be negative")}
      ELSE {Rows(LimitOffset([k \in DOMAIN order |-> row(order[k])], limit, None)) :
              order \in Descending(grouped.keys, total)}

ExecGroupPerformance(tables, stmt) ==
  LET sales == Val(tables.sales)
      ug == Val(tables.user_groups)
      groups == Val(tables.groups)
      lo == Bound(stmt, "s.date >= ")
      hi == Bound(stmt, "s.date <= ")
      group == Bound(stmt, "g.id = ")
      \* rows <<sale, user_groups row, group>>
      selected == {r \in (DOMAIN sales) \X (DOMAIN ug) \X (DOMAIN groups) :
                     /\ groups[r[3]].id = ug[r[2]].group_id
                     /\ ug[r[2]].user_id = sales[r[1]].user_id
                     /\ InRange(sales[r[1]].date, lo, hi)
                     /\ IsSome(group) => groups[r[3]].id = Val(group).n}
      keys == {r[3] : r \in selected}
      rowsOf(g) == {<<r[1], r[2]>> : r \in {x \in selected : x[3] = g}}
      total == [g \in keys |-> SumAmount(sales, rowsOf(g))]
      row(g) ==
        [group_id |-> groups[g].id, group_name |-> groups[g].name,
         total_revenue |-> IntText(total[g]),
         average_revenue |-> Numeric(total[g], Cardinality(rowsOf(g))),
         sale_count |-> Cardinality(rowsOf(g)),
         user_count |-> Cardinality({ug[r[2]].user_id : r \in rowsOf(g)}),
         min_sale |-> MinAmount(sales, rowsOf(g)),
         max_sale |-> MaxAmount(sales, rowsOf(g))]
  IN  IF tables.sales = None \/ tables.user_groups = None \/ tables.groups = None
      THEN {SqlError("relation does not exist")}
      ELSE IF ~Binds(stmt)
      THEN {SqlError("bind message supplies the wrong number of parameters")}
      ELSE IF BadDateParams(stmt, {"s.date >= ", "s.date <= "}) # {}
      THEN {SqlError("date/time field value out of range")}
      ELSE {Rows([k \in DOMAIN order |-> row(order[k])]) :
              order \in Descending(keys, total)}

\* The one row of the aggregate without GROUP BY: over no sale, SUM, AVG,
\* MIN and MAX are NULL and the counts are 0.
ExecSummaryStats(tables, stmt) ==
  LET sales == Val(tables.sales)
      lo == Bound(stmt, "date >= ")
      hi == Bound(stmt, "date <= ")
      selected == {r \in (DOMAIN sales) \X {0} : InRange(sales[r[1]].date, lo, hi)}
      days == {sales[r[1]].date : r \in selected}
      none == selected = {}
  IN  IF tables.sales = None
      THEN {SqlError("relation does not exist")}
      ELSE IF ~Binds(stmt)
      THEN {SqlError("bind message supplies the wrong number of parameters")}
      ELSE IF BadDateParams(stmt, {"date >= ", "date <= "}) # {}
      THEN {SqlError("date/time field value out of range")}
      ELSE {Rows(<<
        [total_revenue |-> IF none THEN None ELSE Some(IntText(SumAmount(sales, selected))),
         total_sales |-> Cardinality(selected),
         average_sale |->
           IF none THEN None
           ELSE Some(Numeric(SumAmount(sales, selected), Cardinality(selected))),
         min_sale |-> IF none THEN None ELSE Some(MinAmount(sales, selected)),
         max_sale |-> IF none THEN None ELSE Some(MaxAmount(sales, selected)),
         unique_sellers |-> Cardinality({sales[r[1]].user_id : r \in selected}),
         first_sale_date |-> IF none THEN None ELSE Some(Ascending(days)[1]),
         last_sale_date |->
           IF none THEN None ELSE Some(Ascending(days)[Cardinality(days)])]>>)}

\* The comparison with each range aggregated on its own: a sale in both
\* ranges is in the row of 'current' and in the row of 'previous'.
ExecPeriodComparison_BothBuckets(tables, stmt) ==
  LET sales == Val(tables.sales)
      P(i) == Some(stmt.params[stmt.text[i].n])
      inCase1(day) == InRange(day, P(2), P(4))
      inCase2(day) == InRange(day, P(6), P(8))
      rowsOf(l) ==
        {r \in (DOMAIN sales) \X {0} :
           IF l = Some("current") THEN inCase1(sales[r[1]].date)
           ELSE inCase2(sales[r[1]].date)}
      labels == {l \in {Some("current"), Some("previous")} : rowsOf(l) # {}}
      row(l) ==
        [period_label |-> l,
         total_revenue |-> IntText(SumAmount(sales, rowsOf(l))),
         sale_count |-> Cardinality(rowsOf(l)),
         average_revenue |-> Numeric(SumAmount(sales, rowsOf(l)), Cardinality(rowsOf(l)))]
  IN  IF tables.sales = None
      THEN {SqlError("relation does not exist")}
      ELSE IF ~Binds(stmt)
      THEN {SqlError("bind message supplies the wrong number of parameters")}
      ELSE IF \E i \in {2, 4, 6, 8, 10, 12, 14, 16} : ~IsDateParam(Val(P(i)))
      THEN {SqlError("date/time field value out of range")}
      ELSE {Rows([k \in DOMAIN order |-> row(order[k])]) :
              order \in {f \in [1..Cardinality(labels) -> labels] :
                           \A i, j \in DOMAIN f : i # j => f[i] # f[j]}}

\* The statement of getPeriodComparison: its eight placeholders are read
\* where the text has them (CASE WHEN .. THEN 'current' WHEN .. THEN
\* 'previous', WHERE (..) OR (..)); a sale in both ranges is 'current'.
ExecPeriodComparison(tables, stmt) ==
  LET sales == Val(tables.sales)
      P(i) == Some(stmt.params[stmt.text[i].n])
      inCase1(day) == InRange(day, P(2), P(4))
      inCase2(day) == InRange(day, P(6), P(8))
      inWhere(day) == InRange(day, P(10), P(12)) \/ InRange(day, P(14), P(16))
      selected == {r \in (DOMAIN sales) \X {0} : inWhere(sales[r[1]].date)}
      label(r) == IF inCase1(sales[r[1]].date) THEN Some("current")
                  ELSE IF inCase2(sales[r[1]].date) THEN Some("previous")
                  ELSE None
      labels == {label(r) : r \in selected}
      rowsOf(l) == {r \in selected : label(r) = l}
      row(l) ==
        [period_label |-> l,
         total_revenue |-> IntText(SumAmount(sales, rowsOf(l))),
         sale_count |-> Cardinality(rowsOf(l)),
         average_revenue |-> Numeric(SumAmount(sales, rowsOf(l)), Cardinality(rowsOf(l)))]
  IN  IF tables.sales = None
      THEN {SqlError("relation does not exist")}
      ELSE IF ~Binds(stmt)
      THEN {SqlError("bind message supplies the wrong number of parameters")}
      ELSE IF \E i \in {2, 4, 6, 8, 10, 12, 14, 16} : ~IsDateParam(Val(P(i)))
      THEN {SqlError("date/time field value out of range")}
      ELSE {Rows([k \in DOMAIN order |-> row(order[k])]) :
              order \in {f \in [1..Cardinality(labels) -> labels] :
                           \A i, j \in DOMAIN f : i # j => f[i] # f[j]}}

\* What the database may answer to the statement a query function sent.
Execute(tables, fn, stmt) ==
  CASE fn = "getTimeSeries" -> ExecTimeSeries(tables, stmt)
    [] fn = "getUserPerformance" -> ExecUserPerformance(tables, stmt)
    [] fn = "getGroupPerformance" -> ExecGroupPerformance(tables, stmt)
    [] fn = "getLeaderboard" -> ExecLeaderboard(tables, stmt)
    [] fn = "getSummaryStats" -> ExecSummaryStats(tables, stmt)
    [] fn = "getPeriodComparison" -> ExecPeriodComparison(tables, stmt)

(***************************************************************************)
(* tables/queries: what each query function makes of the rows, and utils'      *)
(* formatters.  A function resolves with a value or rejects with an error. *)
(***************************************************************************)

\* What JSON has no number for.
NaN == "NaN"

\* formatDateString: date.toISOString().split('T')[0], for the Date the
\* driver makes of a day (the session and the process are on UTC).
formatDateString(day) == DateStr(day.y, "-", day.m, day.d)

\* parseNumericString of the text of a column.
parseNumericString(text) ==
  LET parsed == JsParseInt(text) IN IF IsSome(parsed) THEN Val(parsed) ELSE NaN

\* num / den to the nearest whole number, a half going away from zero.
RoundedDiv(num, den) ==
  IF num >= 0 THEN (2 * num + den) \div (2 * den)
  ELSE 0 - ((2 * (0 - num) + den) \div (2 * den))

\* formatDecimal: parseFloat(num.toFixed(2)).  A number with two decimals
\* is written as the number of its hundredths: 166.67 is 16667.
formatDecimal(numeric) == RoundedDiv(100 * numeric.num, numeric.den)

Resolved(result) == [kind |-> "resolved", err |-> "", result |-> result]

Rejected(err) == [kind |-> "rejected", err |-> err, result |-> <<>>]

getTimeSeriesResult(rows) ==
  Resolved([i \in DOMAIN rows |->
    [period |-> formatDateString(rows[i].period),
     total_revenue |-> parseNumericString(rows[i].total_revenue),
     average_revenue |-> formatDecimal(rows[i].average_revenue),
     sale_count |-> parseNumericString(IntText(rows[i].sale_count)),
     min_sale |-> rows[i].min_sale,
     max_sale |-> rows[i].max_sale]])

getUserPerformanceResult(rows) ==
  Resolved(
    [total |-> IF Len(rows) > 0 THEN rows[1].total_count ELSE 0,
     data |-> [i \in DOMAIN rows |->
       [user_id |-> rows[i].user_id, user_name |-> rows[i].user_name,
        role |-> rows[i].role,
        total_revenue |-> parseNumericString(rows[i].total_revenue),
        average_revenue |-> formatDecimal(rows[i].average_revenue),
        sale_count |-> parseNumericString(IntText(rows[i].sale_count)),
        min_sale |-> rows[i].min_sale,
        max_sale |-> rows[i].max_sale]]])

getGroupPerformanceResult(rows) ==
  Resolved([i \in DOMAIN rows |->
    [group_id |-> rows[i].group_id, group_name |-> rows[i].group_name,
     total_revenue |-> parseNumericString(rows[i].total_revenue),
     average_revenue |-> formatDecimal(rows[i].average_revenue),
     sale_count |-> parseNumericString(IntText(rows[i].sale_count)),
     user_count |-> parseNumericString(IntText(rows[i].user_count)),
     min_sale |-> rows[i].min_sale,
     max_sale |-> rows[i].max_sale]])

\* rank: index, the position counted from 0.
getLeaderboardResult_RankFromZero(rows) ==
  Resolved([i \in DOMAIN rows |->
    [rank |-> i - 1,
     user_id |-> rows[i].user_id, user_name |-> rows[i].user_name,
     role |-> rows[i].role,
     total_revenue |-> parseNumericString(rows[i].total_revenue),
     sale_count |-> parseNumericString(IntText(rows[i].sale_count))]])

\* rank: index + 1 for the 0-based index of map; rows are indexed from 1
\* here, so the rank is i.
getLeaderboardResult(rows) ==
  Resolved([i \in DOMAIN rows |->
    [rank |-> i,
     user_id |-> rows[i].user_id, user_name |-> rows[i].user_name,
     role |-> rows[i].role,
     total_revenue |-> parseNumericString(rows[i].total_revenue),
     sale_count |-> parseNumericString(IntText(rows[i].sale_count))]])

\* getSummaryStats returning zeros and empty dates for a row of NULLs.
getSummaryStatsResult_Guarded(rows) ==
  LET row == rows[1]
  IN  IF row.average_sale = None \/ row.first_sale_date = None
         \/ row.last_sale_date = None
      THEN Resolved(
        [total_revenue |-> 0, total_sales |-> 0, average_sale |-> 0,
         min_sale |-> 0, max_sale |-> 0, unique_sellers |-> 0,
         date_range |-> [start |-> <<>>, end |-> <<>>]])
      ELSE Resolved(
        [total_revenue |->
           IF row.total_revenue = None THEN NaN
           ELSE parseNumericString(Val(row.total_revenue)),
         total_sales |-> parseNumericString(IntText(row.total_sales)),
         average_sale |-> formatDecimal(Val(row.average_sale)),
         min_sale |-> Val(row.min_sale),
         max_sale |-> Val(row.max_sale),
         unique_sellers |-> parseNumericString(IntText(row.unique_sellers)),
         date_range |-> [start |-> formatDateString(Val(row.first_sale_date)),
                         end |-> formatDateString(Val(row.last_sale_date))]])

\* getSummaryStats after the await.  On a row of NULLs (no sale selected)
\* parseInt(null) is NaN, and formatDecimal(null) and formatDateString(null)
\* call a method of null: the function throws a TypeError, at the first of
\* them in the order of the object literal (average_sale, then date_range).
getSummaryStatsResult(rows) ==
  LET row == rows[1]
  IN  IF row.average_sale = None
      THEN Rejected("TypeError: Cannot read properties of null (reading 'toFixed')")
      ELSE IF row.first_sale_date = None \/ row.last_sale_date = None
      THEN Rejected("TypeError: Cannot read properties of null (reading 'toISOString')")
      ELSE Resolved(
        [total_revenue |->
           IF row.total_revenue = None THEN NaN
           ELSE parseNumericString(Val(row.total_revenue)),
         total_sales |-> parseNumericString(IntText(row.total_sales)),
         average_sale |-> formatDecimal(Val(row.average_sale)),
         min_sale |-> Val(row.min_sale),
         max_sale |-> Val(row.max_sale),
         unique_sellers |-> parseNumericString(IntText(row.unique_sellers)),
         date_range |-> [start |-> formatDateString(Val(row.first_sale_date)),
                         end |-> formatDateString(Val(row.last_sale_date))]])

To == <<" ", "t", "o", " ">>

\* rows.find((r) => r.period_label === label): the first such row, if any.
FindLabel(rows, label) ==
  LET at == {i \in DOMAIN rows : rows[i].period_label = Some(label)}
  IN  IF at = {} THEN None ELSE Some(rows[CHOOSE i \in at : \A j \in at : i <= j])

\* The block of a period: the metrics of its row, or 0 without a row.
PeriodBlock(start, end, data) ==
  [period |-> start \o To \o end,
   total_revenue |-> IF IsSome(data) THEN parseNumericString(Val(data).total_revenue) ELSE 0,
   sale_count |-> IF IsSome(data) THEN parseNumericString(IntText(Val(data).sale_count)) ELSE 0,
   average_revenue |-> IF IsSome(data) THEN formatDecimal(Val(data).average_revenue) ELSE 0]

\* getPeriodComparison with the previous block read from the row of the
\* current period.
getPeriodComparisonResult_OneRow(args, rows) ==
  LET currentData == FindLabel(rows, "current")
      current == PeriodBlock(args.currentStart, args.currentEnd, currentData)
      previous == PeriodBlock(args.previousStart, args.previousEnd, currentData)
  IN  Resolved([current |-> current, previous |-> previous,
                change |-> [revenue_change |-> 0, revenue_change_pct |-> 0,
                            count_change |-> 0, count_change_pct |-> 0]])

\* getPeriodComparison with the percentages taken of the current period:
\* tested and divided by current.total_revenue and current.sale_count.
getPeriodComparisonResult_OfCurrent(args, rows) ==
  LET currentData == FindLabel(rows, "current")
      previousData == FindLabel(rows, "previous")
      current == PeriodBlock(args.currentStart, args.currentEnd, currentData)
      previous == PeriodBlock(args.previousStart, args.previousEnd, previousData)
      revenueChange == current.total_revenue - previous.total_revenue
      countChange == current.sale_count - previous.sale_count
  IN  Resolved(
        [current |-> current,
         previous |-> previous,
         change |->
           [revenue_change |-> revenueChange,
            revenue_change_pct |->
              IF current.total_revenue > 0
              THEN formatDecimal(Numeric(revenueChange * 100, current.total_revenue))
              ELSE 0,
            count_change |-> countChange,
            count_change_pct |->
              IF current.sale_count > 0
              THEN formatDecimal(Numeric(countChange * 100, current.sale_count))
              ELSE 0]])

getPeriodComparisonResult(args, rows) ==
  LET currentData == FindLabel(rows, "current")
      previousData == FindLabel(rows, "previous")
      current == PeriodBlock(args.currentStart, args.currentEnd, currentData)
      previous == PeriodBlock(args.previousStart, args.previousEnd, previousData)
      revenueChange == current.total_revenue - previous.total_revenue
      countChange == current.sale_count - previous.sale_count
  IN  Resolved(
        [current |-> current,
         previous |-> previous,
         change |->
           [revenue_change |-> revenueChange,
            revenue_change_pct |->
              IF previous.total_revenue > 0
              THEN formatDecimal(Numeric(revenueChange * 100, previous.total_revenue))
              ELSE 0,
            count_change |-> countChange,
            count_change_pct |->
              IF previous.sale_count > 0
              THEN formatDecimal(Numeric(countChange * 100, previous.sale_count))
              ELSE 0]])

\* What the query function makes of the rows.
ResultOf(call, rows) ==
  CASE call.fn = "getTimeSeries" -> getTimeSeriesResult(rows)
    [] call.fn = "getUserPerformance" -> getUserPerformanceResult(rows)
    [] call.fn = "getGroupPerformance" -> getGroupPerformanceResult(rows)
    [] call.fn = "getLeaderboard" -> getLeaderboardResult(rows)
    [] call.fn = "getSummaryStats" -> getSummaryStatsResult(rows)
    [] call.fn = "getPeriodComparison" -> getPeriodComparisonResult(call.args, rows)

\* The ways the query function called on the database may end: a throw
\* before query(), an error of the statement, or what it makes of the rows.
QueryFunction(tables, call) ==
  LET stmt == QueryOf(call)
  IN  IF stmt = None THEN {Rejected("Invalid granularity")}
      ELSE {IF answer.kind = "error" THEN Rejected(answer.err)
            ELSE ResultOf(call, answer.rows) :
              answer \in Execute(tables, call.fn, Val(stmt))}

\* The statements the handler's calls have handed to query() when the
\* handler yields.
\* The statement of the call handed to query() a second time.
StatementsOf_Again(done) ==
  IF done = <<>> \/ QueryOf(done[1]) = None THEN <<>>
  ELSE <<Val(QueryOf(done[1])), Val(QueryOf(done[1]))>>

StatementsOf(done) ==
  IF done = <<>> \/ QueryOf(done[1]) = None THEN <<>> ELSE <<Val(QueryOf(done[1]))>>

(***************************************************************************)
(* The content of the database                                             *)
(***************************************************************************)

\* The database before seedDatabase has run: no table.
NoTables == [users |-> None, groups |-> None, user_groups |-> None, sales |-> None]

\* The rows the seed files insert (seedUsers.sql, seedGroups.sql,
\* seedUserGroups.sql, seedSales.sql): a sample of each table of the data
\* model.
SeedUsers ==
  <<[id |-> 1, name |-> "Alice", role |-> "Admin"],
    [id |-> 2, name |-> "Bob", role |-> "Call Center"]>>

SeedGroups ==
  <<[id |-> 1, name |-> "Northeast Sales Team"],
    [id |-> 2, name |-> "West Coast Sales Team"]>>

SeedUserGroups ==
  <<[user_id |-> 1, group_id |-> 1], [user_id |-> 2, group_id |-> 2]>>

SeedSales ==
  <<[user_id |-> 1, amount |-> 300, date |-> Day(2021, 1, 1)],
    [user_id |-> 2, amount |-> 100, date |-> Day(2021, 6, 1)]>>

SeedRows ==
  [users |-> SeedUsers, groups |-> SeedGroups, user_groups |-> SeedUserGroups,
   sales |-> SeedSales]

\* The most sales a database of the model holds.
MaxSales == 2

\* The sales a database is made of: sales of each user, of two amounts, on
\* two days of one month and a day of another quarter.
SalePool ==
  <<[user_id |-> 1, amount |-> 100, date |-> Day(2021, 1, 1)],
    [user_id |-> 1, amount |-> 300, date |-> Day(2021, 1, 15)],
    [user_id |-> 1, amount |-> 100, date |-> Day(2021, 6, 1)],
    [user_id |-> 1, amount |-> 300, date |-> Day(2021, 6, 1)],
    [user_id |-> 2, amount |-> 100, date |-> Day(2021, 1, 1)],
    [user_id |-> 2, amount |-> 100, date |-> Day(2021, 1, 15)],
    [user_id |-> 2, amount |-> 300, date |-> Day(2021, 1, 15)],
    [user_id |-> 2, amount |-> 300, date |-> Day(2021, 6, 1)]>>

\* The contents of the sales table: up to MaxSales sales of the pool (the
\* order of the rows in the table plays no part in any statement, so one
\* order stands for all).
SalesContents ==
  UNION {{[i \in 1..n |-> SalePool[f[i]]] :
            f \in {g \in [1..n -> DOMAIN SalePool] :
                     \A i, j \in 1..n : i < j => g[i] <= g[j]}} :
         n \in 0..MaxSales}

\* The contents of user_groups: each user in a group of their own, or both
\* in group 1 with one membership recorded twice.
UserGroupsContents ==
  {SeedUserGroups,
   <<[user_id |-> 1, group_id |-> 1], [user_id |-> 1, group_id |-> 1],
     [user_id |-> 2, group_id |-> 1]>>}

Databases ==
  {[users |-> Some(SeedUsers), groups |-> Some(SeedGroups),
    user_groups |-> Some(ug), sales |-> Some(sales)] :
     ug \in UserGroupsContents, sales \in SalesContents}

\* No run of seedDatabase is at an await.
StoppedPc == [step |-> "stopped", k |-> 0]

\* seedDatabase is not running, and has not run; the process is not
\* listening and has not exited.
NotSeeding ==
  [pc |-> StoppedPc, started |-> 0, completed |-> 0, failed |-> 0,
   listening |-> FALSE, exitCode |-> None]

(***************************************************************************)
(* The requests the model sends                                            *)
(***************************************************************************)

D_JAN == DateStr(2021, "-", 1, 1)

D_JUN == DateStr(2021, "-", 6, 1)

\* Matches the pattern, no day of the calendar.
D_FEB30 == DateStr(2021, "-", 2, 30)

D_MONTH13 == DateStr(2021, "-", 13, 1)

D_SLASH == DateStr(2021, "/", 1, 1)

DateRaws ==
  {Absent, NonString, Str(<<>>)}
    \cup {Str(d) : d \in {D_JAN, D_JUN, D_FEB30, D_MONTH13, D_SLASH}}

CompareDateRaws ==
  {Absent, Str(<<>>)} \cup {Str(d) : d \in {D_JAN, D_JUN, D_FEB30, D_MONTH13}}

GranularityRaws ==
  {Absent, NonString, Str(<<>>)}
    \cup {Str(VALID_GRANULARITIES[i]) : i \in DOMAIN VALID_GRANULARITIES}
    \cup {Str(<<"M", "o", "n", "t", "h">>), Str(<<"h", "o", "u", "r", "l", "y">>)}

IdRaws == {Absent, Str(<<"5">>), Str(<<"a", "b", "c">>)}

LimitRaws ==
  {Absent, NonString, Str(<<>>)}
    \cup {Str(s) : s \in {<<"0">>, <<"1">>, <<"5">>, <<"1", "0", "0">>, <<"1", "0", "1">>,
                          <<"-", "3">>, <<"a", "b", "c">>, <<"5", "a", "b", "c">>,
                          <<"1", "0", ".", "5">>}}

OffsetRaws ==
  {Absent} \cup {Str(s) : s \in {<<"0">>, <<"5">>, <<"-", "1">>, <<"x">>}}

TimeseriesQueries ==
  [granularity : GranularityRaws, start_date : DateRaws, end_date : DateRaws,
   user_id : IdRaws, group_id : IdRaws]

UsersQueries ==
  [start_date : DateRaws, end_date : DateRaws, user_id : IdRaws,
   limit : LimitRaws, offset : OffsetRaws]

GroupsQueries == [start_date : DateRaws, end_date : DateRaws, group_id : IdRaws]

LeaderboardQueries == [start_date : DateRaws, end_date : DateRaws, limit : LimitRaws]

SummaryQueries == [start_date : DateRaws, end_date : DateRaws]

CompareQueries ==
  [current_start : CompareDateRaws, current_end : CompareDateRaws,
   previous_start : CompareDateRaws, previous_end : CompareDateRaws]

(***************************************************************************)
(* The state machine                                                       *)
(***************************************************************************)

NoRequest == [route |-> "none", query |-> <<>>]

NoOutcome == [kind |-> "none", err |-> "", result |-> <<>>]

\* The specification Spec leaves the content of the database open: the
\* awaited call resolves with any rows of its type (Results) or rejects.
Init ==
  /\ pc = "idle"
  /\ req = NoRequest
  /\ calls = <<>>
  /\ outcome = NoOutcome
  /\ responses = <<>>
  /\ logs = <<>>
  /\ utilIn = <<>>
  /\ utilOut = None
  /\ db = NoTables
  /\ sent = <<>>
  /\ seed = NotSeeding

\* A request arrives and its handler runs to its first await or its return.
Start(route, q, done) ==
  /\ req' = [route |-> route, query |-> q]
  /\ calls' = done.calls
  /\ responses' = done.responses
  /\ sent' = StatementsOf(done.calls)
  /\ pc' = IF done.calls # <<>> THEN "awaiting" ELSE "done"
  /\ UNCHANGED <<outcome, logs, utilIn, utilOut, db, seed>>

GetTimeseries ==
  /\ pc = "idle"
  /\ \E q \in TimeseriesQueries : Start("timeseries", q, TimeseriesSync(q))

GetUsers ==
  /\ pc = "idle"
  /\ \E q \in UsersQueries : Start("users", q, UsersSync(q))

GetGroups ==
  /\ pc = "idle"
  /\ \E q \in GroupsQueries : Start("groups", q, GroupsSync(q))

GetLeaderboard ==
  /\ pc = "idle"
  /\ \E q \in LeaderboardQueries : Start("leaderboard", q, LeaderboardSync(q))

GetSummary ==
  /\ pc = "idle"
  /\ \E q \in SummaryQueries : Start("summary", q, SummarySync(q))

GetCompare ==
  /\ pc = "idle"
  /\ \E q \in CompareQueries : Start("compare", q, CompareSync(q))

\* The awaited query function resolves: the handler sends the success response.
QueryResolves ==
  /\ pc = "awaiting"
  /\ \E result \in Results(calls[Len(calls)]) :
       /\ outcome' = [kind |-> "resolved", err |-> "", result |-> result]
       /\ responses' = Append(responses, Respond(req, result))
  /\ pc' = "done"
  /\ UNCHANGED <<req, calls, logs, utilIn, utilOut, db, sent, seed>>

\* The awaited query function rejects: the catch block logs and answers.
QueryRejects ==
  /\ pc = "awaiting"
  /\ \E err \in Errors :
       /\ outcome' = [kind |-> "rejected", err |-> err, result |-> <<>>]
       /\ logs' = Append(logs, [label |-> CatchLabel(req.route), err |-> err])
       /\ responses' = Append(responses, CatchResponse(req.route, err))
  /\ pc' = "done"
  /\ UNCHANGED <<req, calls, utilIn, utilOut, db, sent, seed>>

\* The request is over; the next one starts from a fresh handler invocation.
Finish ==
  /\ pc = "done"
  /\ pc' = "idle"
  /\ req' = NoRequest
  /\ calls' = <<>>
  /\ outcome' = NoOutcome
  /\ responses' = <<>>
  /\ logs' = <<>>
  /\ sent' = <<>>
  /\ UNCHANGED <<utilIn, utilOut, db, seed>>

Next ==
  \/ GetTimeseries
  \/ GetUsers
  \/ GetGroups
  \/ GetLeaderboard
  \/ GetSummary
  \/ GetCompare
  \/ QueryResolves
  \/ QueryRejects
  \/ Finish

Spec == Init /\ [][Next]_vars

(***************************************************************************)
(* The same handlers in front of a database: the awaited query function    *)
(* ends as the statement it sent and the content of the database make it   *)
(* end.                                                                     *)
(***************************************************************************)

D_JAN15 == DateStr(2021, "-", 1, 15)

DbDateRaws == {Absent, Str(D_JAN15)}

\* The requests of timeseries: the filters in every combination, and the
\* ids given as 0.
DbTimeseriesQueries ==
  [granularity : {Absent} \cup {Str(VALID_GRANULARITIES[i]) : i \in DOMAIN VALID_GRANULARITIES},
   start_date : DbDateRaws, end_date : DbDateRaws,
   user_id : {Absent, Str(<<"1">>)}, group_id : {Absent, Str(<<"1">>)}]
    \cup [granularity : {Absent}, start_date : DbDateRaws, end_date : {Absent},
          user_id : {Absent, Str(<<"0">>)}, group_id : {Absent, Str(<<"0">>), Str(<<"1">>)}]

DbUsersQueries ==
  [start_date : DbDateRaws, end_date : DbDateRaws,
   user_id : {Absent, Str(<<"2">>)}, limit : {Absent, Str(<<"1">>)},
   offset : {Absent, Str(<<"0">>), Str(<<"1">>), Str(<<"2">>)}]
    \cup [start_date : {Absent}, end_date : {Absent}, user_id : {Str(<<"0">>)},
          limit : {Absent, Str(<<"1">>)}, offset : {Absent, Str(<<"0">>)}]

DbGroupsQueries ==
  [start_date : DbDateRaws, end_date : DbDateRaws,
   group_id : {Absent, Str(<<"0">>), Str(<<"1">>)}]

DbLeaderboardQueries ==
  [start_date : DbDateRaws, end_date : DbDateRaws,
   limit : {Absent, Str(<<"1">>), Str(<<"2">>)}]

DbSummaryQueries ==
  [start_date : {Absent, Str(D_JAN15), Str(D_JUN)},
   end_date : {Absent, Str(D_JAN15), Str(D_JUN)}]

\* Ranges that are disjoint, that overlap, and that are reversed.
DbCompareQueries ==
  [current_start : {Str(D_JAN), Str(D_JAN15)},
   current_end : {Str(D_JAN15), Str(D_JUN)},
   previous_start : {Str(D_JAN), Str(D_JUN)},
   previous_end : {Str(D_JAN), Str(D_JAN15), Str(D_JUN)}]

InitDb ==
  /\ pc = "idle"
  /\ req = NoRequest
  /\ calls = <<>>
  /\ outcome = NoOutcome
  /\ responses = <<>>
  /\ logs = <<>>
  /\ utilIn = <<>>
  /\ utilOut = None
  /\ db \in Databases
  /\ sent = <<>>
  /\ seed = NotSeeding

DbGetTimeseries ==
  /\ pc = "idle"
  /\ \E q \in DbTimeseriesQueries : Start("timeseries", q, TimeseriesSync(q))

DbGetUsers ==
  /\ pc = "idle"
  /\ \E q \in DbUsersQueries : Start("users", q, UsersSync(q))

DbGetGroups ==
  /\ pc = "idle"
  /\ \E q \in DbGroupsQueries : Start("groups", q, GroupsSync(q))

DbGetLeaderboard ==
  /\ pc = "idle"
  /\ \E q \in DbLeaderboardQueries : Start("leaderboard", q, LeaderboardSync(q))

DbGetSummary ==
  /\ pc = "idle"
  /\ \E q \in DbSummaryQueries : Start("summary", q, SummarySync(q))

DbGetCompare ==
  /\ pc = "idle"
  /\ \E q \in DbCompareQueries : Start("compare", q, CompareSync(q))

\* The query function resolves with what it made of the rows of the
\* database: the handler sends the success response.
DbQueryResolves ==
  /\ pc = "awaiting"
  /\ \E end \in QueryFunction(db, calls[Len(calls)]) :
       /\ end.kind = "resolved"
       /\ outcome' = end
       /\ responses' = Append(responses, Respond(req, end.result))
  /\ pc' = "done"
  /\ UNCHANGED <<req, calls, logs, utilIn, utilOut, db, sent, seed>>

\* The query function throws, or the database refuses the statement: the
\* catch block logs and answers.
DbQueryThrows ==
  /\ pc = "awaiting"
  /\ \E end \in QueryFunction(db, calls[Len(calls)]) :
       /\ end.kind = "rejected"
       /\ outcome' = end
       /\ logs' = Append(logs, [label |-> CatchLabel(req.route), err |-> end.err])
       /\ responses' = Append(responses, CatchResponse(req.route, end.err))
  /\ pc' = "done"
  /\ UNCHANGED <<req, calls, utilIn, utilOut, db, sent, seed>>

\* QueryRejects here is the failure of the pool or of the connection.
NextDb ==
  \/ DbGetTimeseries
  \/ DbGetUsers
  \/ DbGetGroups
  \/ DbGetLeaderboard
  \/ DbGetSummary
  \/ DbGetCompare
  \/ DbQueryResolves
  \/ DbQueryThrows
  \/ QueryRejects
  \/ Finish

SpecDb == InitDb /\ [][NextDb]_vars

(***************************************************************************)
(* seed.ts: seedDatabase, which start() of server.ts awaits before the      *)
(* server listens.  A run is one start of the process; seed.pc is the await *)
(* the run is at.                                                           *)
(***************************************************************************)

\* The most starts of the process.
MaxRuns == 3

\* The tables in the order seedDatabase creates and fills them.
SeedTables == <<"users", "groups", "user_groups", "sales">>

\* A check of the users table that never finds it.
usersTableExists_Never(tables) == FALSE

\* SELECT EXISTS (SELECT FROM pg_tables WHERE schemaname = 'public' AND
\* tablename = 'users'), read as rows[0].exists.
usersTableExists(tables) == IsSome(tables.users)

\* CREATE TABLE IF NOT EXISTS: an empty table unless there is one.
CreateTableIfNotExists(tables, t) ==
  IF IsSome(tables[t]) THEN tables ELSE [tables EXCEPT ![t] = Some(<<>>)]

\* The INSERT of a seed file: its rows after the rows of the table.
InsertSeed(tables, t) ==
  [tables EXCEPT ![t] = Some(Val(tables[t]) \o SeedRows[t])]

\* The await of the query that creates, and that fills, the k-th table.
CreatePc(k) == [step |-> "create", k |-> k]

InsertPc(k) == [step |-> "insert", k |-> k]

ConnectPc == [step |-> "connect", k |-> 0]

CheckPc == [step |-> "check", k |-> 0]

SkipPc == [step |-> "skip", k |-> 0]

EndPc == [step |-> "end", k |-> 0]

\* seedDatabase has returned to start(), and has thrown to its catch.
ReturnedPc == [step |-> "returned", k |-> 0]

ThrownPc == [step |-> "thrown", k |-> 0]

\* The process is started (again): start() calls seedDatabase, which is at
\* await pgclient.connect().
SeedBegin ==
  /\ seed.pc = StoppedPc
  /\ seed.started < MaxRuns
  /\ seed' = [seed EXCEPT !.pc = ConnectPc, !.started = @ + 1,
                          !.listening = FALSE, !.exitCode = None]
  /\ UNCHANGED <<pc, req, calls, outcome, responses, logs, utilIn, utilOut, db, sent>>

\* The client is connected: the query for the users table is sent.
SeedConnected ==
  /\ seed.pc = ConnectPc
  /\ seed' = [seed EXCEPT !.pc = CheckPc]
  /\ UNCHANGED <<pc, req, calls, outcome, responses, logs, utilIn, utilOut, db, sent>>

\* if (usersTableExists) { await pgclient.end(); return; }, else the first
\* table is created.
SeedChecked ==
  /\ seed.pc = CheckPc
  /\ seed' = [seed EXCEPT !.pc = IF usersTableExists(db) THEN SkipPc ELSE CreatePc(1)]
  /\ UNCHANGED <<pc, req, calls, outcome, responses, logs, utilIn, utilOut, db, sent>>

\* await pgclient.query(create..TableQuery), then the INSERT is sent.
SeedCreated ==
  /\ \E k \in DOMAIN SeedTables :
       /\ seed.pc = CreatePc(k)
       /\ db' = CreateTableIfNotExists(db, SeedTables[k])
       /\ seed' = [seed EXCEPT !.pc = InsertPc(k)]
  /\ UNCHANGED <<pc, req, calls, outcome, responses, logs, utilIn, utilOut, sent>>

\* await pgclient.query(..SqlInsert), then the next table is created or,
\* after the last one, the client is ended.
SeedInserted ==
  /\ \E k \in DOMAIN SeedTables :
       /\ seed.pc = InsertPc(k)
       /\ db' = InsertSeed(db, SeedTables[k])
       /\ seed' = [seed EXCEPT !.pc = IF k < Len(SeedTables) THEN CreatePc(k + 1) ELSE EndPc]
  /\ UNCHANGED <<pc, req, calls, outcome, responses, logs, utilIn, utilOut, sent>>

\* await pgclient.end() resolves and seedDatabase returns: the run is
\* complete.
SeedEnded ==
  /\ seed.pc \in {SkipPc, EndPc}
  /\ seed' = [seed EXCEPT !.pc = ReturnedPc, !.completed = @ + 1]
  /\ UNCHANGED <<pc, req, calls, outcome, responses, logs, utilIn, utilOut, db, sent>>

\* An await of the run rejects (the connection fails or is lost):
\* seedDatabase throws.  What the run has written stays.
SeedFails ==
  /\ seed.pc \notin {StoppedPc, ReturnedPc, ThrownPc}
  /\ seed' = [seed EXCEPT !.pc = ThrownPc, !.failed = @ + 1]
  /\ UNCHANGED <<pc, req, calls, outcome, responses, logs, utilIn, utilOut, db, sent>>

\* start() goes on without waiting for seedDatabase: it may listen while
\* the seeding is at any of its awaits.
StartResumes_NoAwait(s) == s.pc \notin {StoppedPc, ThrownPc}

\* await seedDatabase(): start() goes on when seedDatabase has returned.
StartResumes(s) == s.pc = ReturnedPc

\* start() after the await: the app is set up and app.listen is called.
ServerListens ==
  /\ StartResumes(seed)
  /\ seed' = [seed EXCEPT !.pc = StoppedPc, !.listening = TRUE]
  /\ UNCHANGED <<pc, req, calls, outcome, responses, logs, utilIn, utilOut, db, sent>>

\* start().catch: console.error and process.exit(1).
ServerExits ==
  /\ seed.pc = ThrownPc
  /\ seed' = [seed EXCEPT !.pc = StoppedPc, !.exitCode = Some(1)]
  /\ UNCHANGED <<pc, req, calls, outcome, responses, logs, utilIn, utilOut, db, sent>>

NextSeed ==
  \/ SeedBegin
  \/ SeedConnected
  \/ SeedChecked
  \/ SeedCreated
  \/ SeedInserted
  \/ SeedEnded
  \/ SeedFails
  \/ ServerListens
  \/ ServerExits

\* The runs start on a database without tables.
SpecSeed == Init /\ [][NextSeed]_vars

(***************************************************************************)
(* isValidDate applied to a string on its own                              *)
(***************************************************************************)

UtilYears == {1900, 2000, 2020, 2021}

UtilDates ==
  {DateStr(y, sep, m, d) :
     y \in UtilYears, sep \in {"-", "/"}, m \in 0..13, d \in {0, 1, 28, 29, 30, 31, 32}}
    \cup {<<>>, <<"i", "n", "v", "a", "l", "i", "d">>,
          <<"2", "0", "2", "1", "-", "1", "-", "1">>,
          <<"0", "1", "-", "0", "1", "-", "2", "0", "2", "1">>,
          DateStr(2021, "-", 1, 1) \o <<"0">>,
          <<" ">> \o DateStr(2021, "-", 1, 1)}

InitUtils ==
  /\ pc = "idle"
  /\ req = NoRequest
  /\ calls = <<>>
  /\ outcome = NoOutcome
  /\ responses = <<>>
  /\ logs = <<>>
  /\ utilIn \in UtilDates
  /\ utilOut = None
  /\ db = NoTables
  /\ sent = <<>>
  /\ seed = NotSeeding

CheckDate ==
  /\ utilOut = None
  /\ utilOut' = Some(isValidDate(utilIn))
  /\ UNCHANGED <<pc, req, calls, outcome, responses, logs, utilIn, db, sent, seed>>

NextUtils == CheckDate

SpecUtils == InitUtils /\ [][NextUtils]_vars

(***************************************************************************)
(* Properties                                                              *)
(***************************************************************************)

\* The request has been received (its handler has started).
Received == pc \in {"awaiting", "done"}

\* The error code of a response ("" for a success response).
ErrorCode(response) ==
  IF "error" \in DOMAIN response.body THEN response.body.error.code ELSE ""

\* The request has been answered with this status and error code, and with
\* nothing else.
AnsweredWith(status, code) ==
  /\ pc = "done"
  /\ Len(responses) = 1
  /\ responses[1].status = status
  /\ responses[1].body.success = FALSE
  /\ ErrorCode(responses[1]) = code

\* Some response of the request carries this error code.
SomeResponseHas(code) == \E i \in DOMAIN responses : ErrorCode(responses[i]) = code

\* A parameter that is present: a string that is not empty.
Present(raw) == raw.kind = "string" /\ raw.s # <<>>

ValidationCodes ==
  {"INVALID_GRANULARITY", "INVALID_DATE", "INVALID_DATE_RANGE", "INVALID_LIMIT",
   "INVALID_OFFSET", "MISSING_PARAMS"}

\* C1: on every route, a request answered with a 400 validation error has
\* had no query function invoked for it (calls holds every invocation made
\* since the request arrived).
C1_NoQueryBeforeValidationError ==
  \A i \in DOMAIN responses :
    (responses[i].status = 400 /\ ErrorCode(responses[i]) \in ValidationCodes)
      => calls = <<>>

\* A users request that passed every check but the last one, the offset's.
C1_Witness ==
  /\ req.route = "users"
  /\ AnsweredWith(400, "INVALID_OFFSET")
  /\ Present(req.query.start_date)
  /\ Present(req.query.limit)

\* The text the claim C2 expects of each endpoint's failure response.
C2_FixedText(route) ==
  CASE route = "timeseries" -> "Failed to fetch time series data"
    [] route = "users" -> "Failed to fetch user performance data"
    [] route = "groups" -> "Failed to fetch group performance data"
    [] route = "leaderboard" -> "Failed to fetch leaderboard data"
    [] route = "summary" -> "Failed to fetch summary statistics"
    [] route = "compare" -> "Failed to fetch period comparison"

\* C2: when the query function a handler called has failed, whatever the
\* error, the one response is 500, success false, code INTERNAL_ERROR, and
\* its message is the endpoint's fixed text: literal, and not the error's.
C2_QueryFailureIs500 ==
  outcome.kind = "rejected" =>
    /\ AnsweredWith(500, "INTERNAL_ERROR")
    /\ responses[1].body.error.message = <<Lit(C2_FixedText(req.route))>>
    /\ \A k \in DOMAIN responses[1].body.error.message :
         LET part == responses[1].body.error.message[k]
         IN  part.val = <<>> /\ part.lit # outcome.err

C2_Witness ==
  /\ outcome.kind = "rejected"
  /\ outcome.err = "Database error"
  /\ req.route = "compare"
  /\ pc = "done"

\* C3: a request that has ended has exactly one response, a request that is
\* still being handled has none, and a response is either 200 with
\* {success: true, data, meta?} or not 200 with {success: false, error:
\* {code, message}}.
C3_OneWellFormedResponse ==
  /\ Len(responses) <= 1
  /\ pc = "done" <=> Len(responses) = 1
  /\ \A i \in DOMAIN responses :
       LET r == responses[i]
       IN  \/ /\ r.status = 200
              /\ r.body.success = TRUE
              /\ DOMAIN r.body \in {{"success", "data"}, {"success", "data", "meta"}}
           \/ /\ r.status # 200
              /\ r.body.success = FALSE
              /\ DOMAIN r.body = {"success", "error"}
              /\ DOMAIN r.body.error = {"code", "message"}

\* One request answered with a validation error...
C3_Witness ==
  /\ pc = "done"
  /\ req.route = "timeseries"
  /\ Len(responses) = 1
  /\ responses[1].status = 400
  /\ DOMAIN responses[1].body = {"success", "error"}

\* C4: isValidDate is true exactly of the strings YYYY-MM-DD that name a
\* day of the calendar: false when the pattern does not match, false for
\* month 00 or 13, day 00 and a day past the end of the month.
C4_ValidExactlyCalendarDates ==
  IsSome(utilOut) => (Val(utilOut) <=> IsCalendarDate(utilIn))

RangeRoutes == {"timeseries", "users", "groups", "leaderboard", "summary"}

\* start_date and end_date are both present and both calendar dates.
BothDatesValid(q) ==
  /\ Present(q.start_date) /\ IsCalendarDate(q.start_date.s)
  /\ Present(q.end_date) /\ IsCalendarDate(q.end_date.s)

TheGranularities == {GDay, GWeek, GMonth, GQuarter, GYear}

\* C5 as stated: on the five routes with start_date and end_date, two valid
\* dates with start_date > end_date are answered 400 INVALID_DATE_RANGE,
\* and with start_date <= end_date no INVALID_DATE_RANGE is sent.
C5_Original ==
  (Received /\ req.route \in RangeRoutes /\ BothDatesValid(req.query)) =>
    IF DateNumber(req.query.start_date.s) > DateNumber(req.query.end_date.s)
    THEN AnsweredWith(400, "INVALID_DATE_RANGE")
    ELSE ~SomeResponseHas("INVALID_DATE_RANGE")

\* The granularity check, which the timeseries handler makes before the
\* date checks, lets the request through.
C5_GranularityPasses ==
  req.route = "timeseries" =>
    (~Present(req.query.granularity) \/ req.query.granularity.s \in TheGranularities)

\* C5 as amended: the same, and on timeseries the rejection needs a
\* granularity that is absent or valid; an INVALID_DATE_RANGE is only ever
\* sent for a start_date after the end_date.
C5_RangeCheck ==
  /\ (Received /\ req.route \in RangeRoutes /\ BothDatesValid(req.query)) =>
       IF DateNumber(req.query.start_date.s) > DateNumber(req.query.end_date.s)
       THEN C5_GranularityPasses => AnsweredWith(400, "INVALID_DATE_RANGE")
       ELSE ~SomeResponseHas("INVALID_DATE_RANGE")
  /\ SomeResponseHas("INVALID_DATE_RANGE") =>
       /\ req.route \in RangeRoutes
       /\ calls = <<>>

\* A timeseries request with a valid granularity and start_date after
\* end_date, rejected by the range check.
C5_Witness ==
  /\ req.route = "timeseries"
  /\ req.query.granularity = Str(GWeek)
  /\ BothDatesValid(req.query)
  /\ DateNumber(req.query.start_date.s) > DateNumber(req.query.end_date.s)
  /\ AnsweredWith(400, "INVALID_DATE_RANGE")

\* C6: on compare, four present and valid bounds with current_start >
\* current_end or previous_start > previous_end are answered 400
\* INVALID_DATE_RANGE and getPeriodComparison is not called.
C6_CompareRejectsReversedRange ==
  LET q == req.query
  IN  ( /\ Received
        /\ req.route = "compare"
        /\ \A raw \in {q.current_start, q.current_end, q.previous_start, q.previous_end} :
             Present(raw) /\ IsCalendarDate(raw.s)
        /\ \/ DateNumber(q.current_start.s) > DateNumber(q.current_end.s)
           \/ DateNumber(q.previous_start.s) > DateNumber(q.previous_end.s) )
      => (AnsweredWith(400, "INVALID_DATE_RANGE") /\ calls = <<>>)

\* C7: on timeseries, getTimeSeries gets 'month' when granularity is absent
\* and the parameter's value when it is one of the five; such a request is
\* never answered INVALID_GRANULARITY; any other non-empty value is answered
\* 400 INVALID_GRANULARITY and getTimeSeries is not called.
C7_Granularity ==
  (Received /\ req.route = "timeseries") =>
    LET g == req.query.granularity
    IN  /\ g.kind = "absent" =>
             /\ ~SomeResponseHas("INVALID_GRANULARITY")
             /\ \A i \in DOMAIN calls :
                  calls[i].fn = "getTimeSeries" /\ calls[i].args.granularity = GMonth
        /\ (g.kind = "string" /\ g.s \in TheGranularities) =>
             /\ ~SomeResponseHas("INVALID_GRANULARITY")
             /\ \A i \in DOMAIN calls :
                  calls[i].fn = "getTimeSeries" /\ calls[i].args.granularity = g.s
        /\ (Present(g) /\ g.s \notin TheGranularities) =>
             AnsweredWith(400, "INVALID_GRANULARITY") /\ calls = <<>>

\* 'Month' is rejected: the comparison is case-sensitive.
C7_Witness ==
  /\ req.route = "timeseries"
  /\ req.query.granularity = Str(<<"M", "o", "n", "t", "h">>)
  /\ AnsweredWith(400, "INVALID_GRANULARITY")

\* The date checks, which the users and leaderboard handlers make before
\* the limit check, let the request through.
DateChecksPass(q) ==
  LET startDate == parseStringParam(q.start_date)
      endDate == parseStringParam(q.end_date)
  IN  /\ IsSome(startDate) => isValidDate(Val(startDate))
      /\ IsSome(endDate) => isValidDate(Val(endDate))
      /\ ~(IsSome(startDate) /\ IsSome(endDate) /\ StrGT(Val(startDate), Val(endDate)))

\* C8 as stated: on users and leaderboard, a limit that parses to an
\* integer in 1..100 is not rejected, and one outside 1..100 is answered
\* 400 INVALID_LIMIT.
C8_Original ==
  (Received /\ req.route \in {"users", "leaderboard"}
     /\ IsSome(parseIntParam(req.query.limit))) =>
    IF Val(parseIntParam(req.query.limit)) \in 1..100
    THEN ~SomeResponseHas("INVALID_LIMIT")
    ELSE AnsweredWith(400, "INVALID_LIMIT")

\* C8 as amended: the same, the rejection being the answer when the date
\* checks, which come first, pass; getUserPerformance and getLeaderboard are
\* never called with a limit outside 1..100.
C8_LimitRange ==
  (Received /\ req.route \in {"users", "leaderboard"}
     /\ IsSome(parseIntParam(req.query.limit))) =>
    IF Val(parseIntParam(req.query.limit)) \in 1..100
    THEN ~SomeResponseHas("INVALID_LIMIT")
    ELSE /\ calls = <<>>
         /\ DateChecksPass(req.query) => AnsweredWith(400, "INVALID_LIMIT")

\* limit=101 with acceptable dates, answered INVALID_LIMIT.
C8_Witness ==
  /\ req.route = "leaderboard"
  /\ req.query.limit = Str(<<"1", "0", "1">>)
  /\ Present(req.query.start_date)
  /\ AnsweredWith(400, "INVALID_LIMIT")

\* C9: on leaderboard a request without a limit is never answered
\* INVALID_LIMIT and getLeaderboard gets limit 10; a limit given and valid
\* (parsing to an integer in 1..100) is the limit getLeaderboard gets; on
\* users an absent limit reaches getUserPerformance as undefined.
C9_LimitDefault ==
  /\ (Received /\ req.route = "leaderboard") =>
       /\ req.query.limit.kind = "absent" =>
            /\ ~SomeResponseHas("INVALID_LIMIT")
            /\ \A i \in DOMAIN calls :
                 calls[i].fn = "getLeaderboard" /\ calls[i].args.limit = 10
       /\ \A n \in 1..100 :
            parseIntParam(req.query.limit) = Some(n) =>
              \A i \in DOMAIN calls :
                calls[i].fn = "getLeaderboard" /\ calls[i].args.limit = n
  /\ (Received /\ req.route = "users" /\ req.query.limit.kind = "absent") =>
       \A i \in DOMAIN calls :
         calls[i].fn = "getUserPerformance" /\ calls[i].args.limit = None

\* A leaderboard request without a limit whose query was made with 10.
C9_Witness ==
  /\ req.route = "leaderboard"
  /\ req.query.limit.kind = "absent"
  /\ Len(calls) = 1
  /\ calls[1].args.limit = 10
  /\ pc = "done"

\* C10 as stated: on users, an offset that parses to an integer >= 0 is not
\* rejected and is what getUserPerformance gets; a negative one is answered
\* 400 INVALID_OFFSET.
C10_Original ==
  (Received /\ req.route = "users" /\ IsSome(parseIntParam(req.query.offset))) =>
    IF Val(parseIntParam(req.query.offset)) >= 0
    THEN /\ ~SomeResponseHas("INVALID_OFFSET")
         /\ \A i \in DOMAIN calls :
              calls[i].args.offset = parseIntParam(req.query.offset)
    ELSE AnsweredWith(400, "INVALID_OFFSET")

\* The limit check of the users handler lets the request through.
C10_LimitPasses ==
  IsSome(parseIntParam(req.query.limit)) =>
    Val(parseIntParam(req.query.limit)) \in 1..100

\* C10 as amended: the same, the rejection being the answer when the date
\* checks and the limit check, which come first, pass; getUserPerformance
\* is never called with a negative offset.
C10_OffsetRange ==
  (Received /\ req.route = "users" /\ IsSome(parseIntParam(req.query.offset))) =>
    IF Val(parseIntParam(req.query.offset)) >= 0
    THEN /\ ~SomeResponseHas("INVALID_OFFSET")
         /\ \A i \in DOMAIN calls :
              calls[i].args.offset = parseIntParam(req.query.offset)
    ELSE /\ calls = <<>>
         /\ (DateChecksPass(req.query) /\ C10_LimitPasses) =>
              AnsweredWith(400, "INVALID_OFFSET")

\* offset=-1 with an acceptable limit, answered INVALID_OFFSET.
C10_Witness ==
  /\ req.route = "users"
  /\ req.query.offset = Str(<<"-", "1">>)
  /\ req.query.limit = Str(<<"1", "0", "0">>)
  /\ AnsweredWith(400, "INVALID_OFFSET")

\* C11: on compare, a request in which any of the four bounds is absent or
\* empty is answered 400 MISSING_PARAMS and getPeriodComparison is not
\* called, whatever the bounds that are present hold (a malformed date
\* among them included).
C11_MissingParamsFirst ==
  LET q == req.query
  IN  ( /\ Received
        /\ req.route = "compare"
        /\ \E raw \in {q.current_start, q.current_end, q.previous_start, q.previous_end} :
             ~Present(raw) )
      => (AnsweredWith(400, "MISSING_PARAMS") /\ calls = <<>>)

\* previous_end is missing and current_start is 2021-13-01.
C11_Witness ==
  /\ req.route = "compare"
  /\ req.query.current_start = Str(D_MONTH13)
  /\ Present(req.query.current_end)
  /\ Present(req.query.previous_start)
  /\ req.query.previous_end = Absent
  /\ AnsweredWith(400, "MISSING_PARAMS")

\* A value with no digit in it: not numeric.
C12_NotNumeric(raw) ==
  /\ Present(raw)
  /\ \A i \in DOMAIN raw.s : ~IsDigit(raw.s[i])

\* What the handler of the route does with the query q up to its await.
C12_Sync(route, q) ==
  CASE route = "timeseries" -> TimeseriesSync(q)
    [] route = "users" -> UsersSync(q)
    [] route = "groups" -> GroupsSync(q)

\* The request went as the request r0 goes: the same validation answer or
\* the same call, and the same response to the same outcome of the call.
C12_SameAs(r0) ==
  /\ calls = C12_Sync(r0.route, r0.query).calls
  /\ outcome.kind = "none" => responses = C12_Sync(r0.route, r0.query).responses
  /\ outcome.kind = "resolved" => responses = <<Respond(r0, outcome.result)>>

C13_Indices(statement) ==
  LET IsPlaceholder(part) == part.kind = "placeholder"
      found == SelectSeq(statement.text, IsPlaceholder)
  IN  [k \in DOMAIN found |-> found[k].n]

\* The filters a call supplies, in the order start date, end date, user id,
\* group id, limit, offset: a date that is given, an id that is given and
\* not 0, a limit and an offset that are given.
C13_Filters(call) ==
  LET a == call.args
      F == DOMAIN a
      date(o) == IF o # {} /\ Val(o) # <<>> THEN <<PStr(Val(o))>> ELSE <<>>
      id(o) == IF o # {} /\ Val(o) # 0 THEN <<PNum(Val(o))>> ELSE <<>>
      num(o) == IF o # {} THEN <<PNum(Val(o))>> ELSE <<>>
  IN  IF call.fn = "getPeriodComparison"
      THEN <<PStr(a.currentStart), PStr(a.currentEnd),
             PStr(a.previousStart), PStr(a.previousEnd)>>
      ELSE date(a.startDate) \o date(a.endDate)
             \o (IF "userId" \in F THEN id(a.userId) ELSE <<>>)
             \o (IF "groupId" \in F THEN id(a.groupId) ELSE <<>>)
             \o (IF "limit" \in F
                 THEN (IF call.fn = "getLeaderboard" THEN <<PNum(a.limit)>> ELSE num(a.limit))
                 ELSE <<>>)
             \o (IF "offset" \in F THEN num(a.offset) ELSE <<>>)

\* C13 as stated: every call has handed one statement to query(); its
\* placeholders are $1..$n, none missing and none used twice, for the n
\* values of the parameter list, which are the filters supplied, in
\* construction order.
C13_Original ==
  /\ Len(sent) = Len(calls)
  /\ \A i \in DOMAIN sent :
       LET indices == C13_Indices(sent[i])
       IN  /\ sent[i].params = C13_Filters(calls[i])
           /\ Len(indices) = Len(sent[i].params)
           /\ {indices[k] : k \in DOMAIN indices} = 1..Len(sent[i].params)

\* C13 as amended: the same for the five statements built from filters,
\* whose placeholders are $1, $2, .., $n in this order in the text; the
\* statement of getPeriodComparison has $1..$4 twice (in the CASE and in
\* the WHERE), for the four bounds in the order current start, current end,
\* previous start, previous end.
C13_PlaceholdersInOrder ==
  /\ Len(sent) = Len(calls)
  /\ \A i \in DOMAIN sent :
       /\ sent[i].params = C13_Filters(calls[i])
       /\ C13_Indices(sent[i]) =
            IF calls[i].fn = "getPeriodComparison"
            THEN <<1, 2, 3, 4, 1, 2, 3, 4>>
            ELSE [k \in 1..Len(sent[i].params) |-> k]

\* A users request with all five filters: five parameters.
C13_Witness ==
  /\ req.route = "users"
  /\ Len(sent) = 1
  /\ Len(sent[1].params) = 5
  /\ C13_Indices(sent[1]) = <<1, 2, 3, 4, 5>>
  /\ sent[1].params[3] = PNum(5)

\* The values of the request's parameters that are strings.
C14_RequestStrings ==
  {req.query[k].s : k \in {f \in DOMAIN req.query : Present(req.query[f])}}

C15_Matches(sale) ==
  /\ Present(req.query.start_date) =>
       DayOrd(sale.date) >= DateNumber(req.query.start_date.s)
  /\ Present(req.query.end_date) =>
       DayOrd(sale.date) <= DateNumber(req.query.end_date.s)
  /\ Present(req.query.user_id) =>
       sale.user_id = Val(JsParseInt(req.query.user_id.s))

\* The users that have at least one sale matching the filters.
C15_MatchingUsers ==
  LET sales == Val(db.sales)
  IN  {sales[i].user_id : i \in {k \in DOMAIN sales : C15_Matches(sales[k])}}

\* C15: a users request that is answered with a result has meta.total equal
\* to the number of users with at least one sale matching the date and user
\* filters, whatever its limit and offset.
C15_TotalIndependentOfPaging ==
  (pc = "done" /\ req.route = "users" /\ outcome.kind = "resolved") =>
    responses[Len(responses)].body.meta.total = Cardinality(C15_MatchingUsers)

\* The data of the response to a request that was answered with a result.
C16_Data == responses[Len(responses)].body.data

\* The limit of the leaderboard request: the parameter, or 10 without it.
C16_Limit ==
  IF Present(req.query.limit) THEN Val(JsParseInt(req.query.limit.s)) ELSE DEFAULT_LIMIT

\* C16: the leaderboard a request is answered with has at most limit
\* entries, the ranks 1, 2, .., n in list order, and a total_revenue that
\* never increases down the list.
C16_RankedDescending ==
  (pc = "done" /\ req.route = "leaderboard" /\ outcome.kind = "resolved") =>
    /\ Len(C16_Data) <= C16_Limit
    /\ \A i \in DOMAIN C16_Data : C16_Data[i].rank = i
    /\ \A i, j \in DOMAIN C16_Data :
         i < j => C16_Data[i].total_revenue >= C16_Data[j].total_revenue

\* Two sellers of different totals come back as rank 1 and rank 2.
C16_Witness ==
  /\ pc = "done" /\ req.route = "leaderboard" /\ outcome.kind = "resolved"
  /\ Len(C16_Data) = 2
  /\ C16_Data[1].rank = 1 /\ C16_Data[2].rank = 2
  /\ C16_Data[1].total_revenue > C16_Data[2].total_revenue

\* The sales of the database dated from start to end, both strings
\* YYYY-MM-DD.
C17_SalesIn(start, end) ==
  LET sales == Val(db.sales)
  IN  {i \in DOMAIN sales :
         /\ DayOrd(sales[i].date) >= DateNumber(start)
         /\ DayOrd(sales[i].date) <= DateNumber(end)}

\* A block of the comparison is labelled '<start> to <end>' and, with no
\* sale from start to end, has zero metrics.
C17_Block(block, start, end) ==
  /\ block.period = start \o <<" ", "t", "o", " ">> \o end
  /\ C17_SalesIn(start, end) = {} =>
       /\ block.total_revenue = 0
       /\ block.sale_count = 0
       /\ block.average_revenue = 0

\* C17: the comparison a request is answered with has a current and a
\* previous block, each labelled with its range, and the block of a range
\* without a sale has total_revenue, sale_count and average_revenue 0.
C17_BothBlocks ==
  (pc = "done" /\ req.route = "compare" /\ outcome.kind = "resolved") =>
    /\ {"current", "previous"} \subseteq DOMAIN C16_Data
    /\ C17_Block(C16_Data.current,
                 req.query.current_start.s, req.query.current_end.s)
    /\ C17_Block(C16_Data.previous,
                 req.query.previous_start.s, req.query.previous_end.s)

\* A comparison with sales in the current range and none in the previous.
C17_Witness ==
  /\ pc = "done" /\ req.route = "compare" /\ outcome.kind = "resolved"
  /\ C17_SalesIn(req.query.current_start.s, req.query.current_end.s) # {}
  /\ C17_SalesIn(req.query.previous_start.s, req.query.previous_end.s) = {}
  /\ C16_Data.current.total_revenue > 0
  /\ C16_Data.previous.total_revenue = 0
  /\ C16_Data.previous.period = D_JUN \o <<" ", "t", "o", " ">> \o D_JUN

RECURSIVE C18_Sum(_)
\* The sum of a sequence of numbers.
C18_Sum(numbers) ==
  IF numbers = <<>> THEN 0 ELSE numbers[1] + C18_Sum(Tail(numbers))

\* What a summary request with no filters ends as on the database.
C18_Summary ==
  QueryFunction(db, [fn |-> "getSummaryStats",
                     args |-> [startDate |-> None, endDate |-> None]])

\* A timeseries request with no filters has been answered with buckets.
C18_TimeseriesAnswered ==
  /\ pc = "done" /\ req.route = "timeseries" /\ outcome.kind = "resolved"
  /\ \A f \in {"start_date", "end_date", "user_id", "group_id"} :
       req.query[f] = Absent

\* C18: on any database, the buckets a timeseries request with no filters
\* is answered with, of any granularity, sum to the summary with no
\* filters: total_revenue to total_revenue, sale_count to total_sales.
C18_TimeseriesSumsToSummary ==
  C18_TimeseriesAnswered =>
    \A summary \in C18_Summary :
      /\ summary.kind = "resolved"
      /\ summary.result.total_revenue =
           C18_Sum([i \in DOMAIN C16_Data |-> C16_Data[i].total_revenue])
      /\ summary.result.total_sales =
           C18_Sum([i \in DOMAIN C16_Data |-> C16_Data[i].sale_count])

\* The response to a timeseries request that was answered with a result.
C19_Answered ==
  /\ pc = "done" /\ req.route = "timeseries"
  /\ responses[Len(responses)].status = 200

C19_Meta == responses[Len(responses)].body.meta

\* C19: a successful timeseries response has meta.total equal to the length
\* of data; meta.period.start is the start_date of the caller when supplied,
\* otherwise the period of the first bucket when there is one, otherwise
\* the empty string; meta.period.end likewise with end_date and the last
\* bucket.
C19_PeriodOfResponse ==
  C19_Answered =>
    /\ C19_Meta.total = Len(C16_Data)
    /\ C19_Meta.period.start =
         IF Present(req.query.start_date) THEN req.query.start_date.s
         ELSE IF C16_Data # <<>> THEN C16_Data[1].period
         ELSE <<>>
    /\ C19_Meta.period.end =
         IF Present(req.query.end_date) THEN req.query.end_date.s
         ELSE IF C16_Data # <<>> THEN C16_Data[Len(C16_Data)].period
         ELSE <<>>

\* A response whose start is the caller's and differs from the first
\* bucket's period, and whose end is the last bucket's period.
C19_Witness ==
  /\ C19_Answered
  /\ Present(req.query.start_date)
  /\ ~Present(req.query.end_date)
  /\ Len(C16_Data) >= 2
  /\ C16_Data[1].period # req.query.start_date.s
  /\ C19_Meta.period.start = req.query.start_date.s
  /\ C19_Meta.period.end = C16_Data[Len(C16_Data)].period

\* The four tables with the seed rows, once.
C20_SeededOnce ==
  [users |-> {SeedUsers}, groups |-> {SeedGroups},
   user_groups |-> {SeedUserGroups}, sales |-> {SeedSales}]

\* C20: a step of seedDatabase on a database where a run has completed
\* creates no table and inserts no row, and after any number of runs, all
\* complete, the database holds the four tables with the seed rows exactly
\* once.
C20_SeedIdempotent ==
  /\ []((seed.completed >= 1 /\ seed.failed = 0) => db = C20_SeededOnce)
  /\ [][seed.completed >= 1 => db' = db]_vars

\* A second complete run has ended on the seeded database.
C20_Witness ==
  /\ seed.completed >= 2
  /\ seed.failed = 0
  /\ seed.pc = StoppedPc
  /\ db = C20_SeededOnce

\* The request was answered by the catch block of its handler.
C21_Failed == pc = "done" /\ outcome.kind = "rejected"

\* C21: a request hands at most one statement to query(): none when it is
\* answered with a validation error, one when it passes validation, and
\* still that one, with one 500 response, when the call has failed; nothing
\* is handed to query() after the handler's first await.
C21_OneRoundTrip ==
  /\ [](Received =>
          /\ Len(sent) = Len(calls)
          /\ Len(sent) <= 1
          /\ (\E i \in DOMAIN responses : ErrorCode(responses[i]) \in ValidationCodes)
               => sent = <<>>
          /\ (pc = "awaiting" \/ outcome.kind # "none") => Len(sent) = 1
          /\ C21_Failed =>
               /\ Len(sent) = 1
               /\ Len(responses) = 1
               /\ responses[1].status = 500)
  /\ [][Received => (sent' = sent \/ pc' = "idle")]_vars

\* The single call of a users request failed: one statement, one response.
C21_Witness ==
  /\ C21_Failed
  /\ req.route = "users"
  /\ Len(sent) = 1
  /\ Len(responses) = 1
  /\ ErrorCode(responses[1]) = "INTERNAL_ERROR"

\* A comparison request has been answered with a result.
C22_Compared == pc = "done" /\ req.route = "compare" /\ outcome.kind = "resolved"

\* C22: in the comparison a request is answered with, revenue_change is
\* current.total_revenue - previous.total_revenue, count_change is
\* current.sale_count - previous.sale_count, revenue_change_pct is 0
\* whenever previous.total_revenue is 0 and count_change_pct is 0 whenever
\* previous.sale_count is 0.
C22_ChangeBlock ==
  C22_Compared =>
    LET current == C16_Data.current
        previous == C16_Data.previous
        change == C16_Data.change
    IN  /\ change.revenue_change = current.total_revenue - previous.total_revenue
        /\ change.count_change = current.sale_count - previous.sale_count
        /\ previous.total_revenue = 0 => change.revenue_change_pct = 0
        /\ previous.sale_count = 0 => change.count_change_pct = 0

\* Sales in the current range and none in the previous: the changes are the
\* current values and both percentages are 0.
C22_Witness ==
  /\ C22_Compared
  /\ C16_Data.previous.total_revenue = 0
  /\ C16_Data.previous.sale_count = 0
  /\ C16_Data.current.total_revenue > 0
  /\ C16_Data.change.revenue_change = C16_Data.current.total_revenue
  /\ C16_Data.change.revenue_change_pct = 0
  /\ C16_Data.change.count_change_pct = 0

\* A date parameter that is given and fails the date check of the
\* handlers.
C23_BadDate(raw) == Present(raw) /\ ~isValidDate(raw.s)

\* The number a parameter parses to, if it is given and parses.
C23_Number(raw) == IF Present(raw) THEN JsParseInt(raw.s) ELSE {}

\* The rules of start_date and end_date, in the order format of the start,
\* format of the end, order of the range: the first one violated, as the
\* code and the field it is about, or nothing.
C23_FirstDateRule(q) ==
  IF C23_BadDate(q.start_date) THEN <<[code |-> "INVALID_DATE", field |-> "start_date "]>>
  ELSE IF C23_BadDate(q.end_date) THEN <<[code |-> "INVALID_DATE", field |-> "end_date "]>>
  ELSE IF Present(q.start_date) /\ Present(q.end_date)
          /\ DateNumber(q.start_date.s) > DateNumber(q.end_date.s)
  THEN <<[code |-> "INVALID_DATE_RANGE", field |-> "start_date must be before end_date"]>>
  ELSE <<>>

C23_LimitRule(q) ==
  IF C23_Number(q.limit) # {} /\ Val(C23_Number(q.limit)) \notin 1..100
  THEN <<[code |-> "INVALID_LIMIT", field |-> "limit must be between 1 and 100"]>>
  ELSE <<>>

C23_OffsetRule(q) ==
  IF C23_Number(q.offset) # {} /\ Val(C23_Number(q.offset)) < 0
  THEN <<[code |-> "INVALID_OFFSET", field |-> "offset must be a non-negative integer"]>>
  ELSE <<>>

C23_GranularityRule(q) ==
  IF Present(q.granularity) /\ q.granularity.s \notin TheGranularities
  THEN <<[code |-> "INVALID_GRANULARITY", field |-> ""]>>
  ELSE <<>>

\* The rules a request of timeseries, users or leaderboard violates, in the
\* order of the route's checks.
C23_Violated(route, q) ==
  CASE route = "timeseries" -> C23_GranularityRule(q) \o C23_FirstDateRule(q)
    [] route = "users" -> C23_FirstDateRule(q) \o C23_LimitRule(q) \o C23_OffsetRule(q)
    [] route = "leaderboard" -> C23_FirstDateRule(q) \o C23_LimitRule(q)
    [] OTHER -> <<>>

\* The bounds of a comparison in the order of its checks.
C23_Bounds(q) == <<q.current_start, q.current_end, q.previous_start, q.previous_end>>

\* The response is the answer of a rule: its code and, but for the
\* granularity, the start of its message.
C23_AnswerOf(rule) ==
  /\ AnsweredWith(400, rule.code)
  /\ rule.field # "" => responses[1].body.error.message[1].lit = rule.field

\* C23: a request of timeseries, users or leaderboard that violates one or
\* more rules is answered with the first rule violated in the order of the
\* route (granularity, start_date, end_date, range; start_date, end_date,
\* range, limit, offset; start_date, end_date, range, limit); a comparison
\* with a bound missing is answered MISSING_PARAMS, and otherwise one with a
\* bound that is no date is answered INVALID_DATE for the first such bound
\* in the order current_start, current_end, previous_start, previous_end.
C23_FirstViolatedRule ==
  Received =>
    /\ C23_Violated(req.route, req.query) # <<>> =>
         C23_AnswerOf(C23_Violated(req.route, req.query)[1])
    /\ req.route = "compare" =>
         LET bounds == C23_Bounds(req.query)
             bad == {i \in 1..4 : C23_BadDate(bounds[i])}
         IN  IF \E i \in 1..4 : ~Present(bounds[i])
             THEN AnsweredWith(400, "MISSING_PARAMS")
             ELSE bad # {} =>
                    /\ AnsweredWith(400, "INVALID_DATE")
                    /\ responses[1].body.error.message[2].val =
                         bounds[CHOOSE i \in bad : \A j \in bad : i <= j].s

\* A users request that violates the rules of the range, of the limit and
\* of the offset, answered INVALID_DATE_RANGE.
C23_Witness ==
  /\ req.route = "users"
  /\ Len(C23_Violated(req.route, req.query)) = 3
  /\ AnsweredWith(400, "INVALID_DATE_RANGE")

\* The text a message starts with when it names a parameter.
C24_NameOf ==
  [start_date |-> "start_date ", end_date |-> "end_date ",
   current_start |-> "current_start ", current_end |-> "current_end ",
   previous_start |-> "previous_start ", previous_end |-> "previous_end "]

\* The literal texts of a message.
C24_Literals(message) == {message[i].lit : i \in DOMAIN message}

\* C24: on every route, the message of an INVALID_DATE response has the
\* name of a parameter of the request whose value fails the date check.
C24_NamesOffendingField ==
  \A i \in DOMAIN responses :
    ErrorCode(responses[i]) = "INVALID_DATE" =>
      \E f \in DOMAIN req.query :
        /\ f \in DOMAIN C24_NameOf
        /\ Present(req.query[f]) /\ ~isValidDate(req.query[f].s)
        /\ C24_NameOf[f] \in C24_Literals(responses[i].body.error.message)

\* The id parameters of the request that are given as 0.
C25_ZeroIds ==
  {f \in {"user_id", "group_id"} \cap DOMAIN req.query : req.query[f] = Str(<<"0">>)}

\* The argument of the query function an id parameter becomes.
C25_ArgOf == [user_id |-> "userId", group_id |-> "groupId"]

\* The condition of an id in the statement of each query function.
C25_Column ==
  [getTimeSeries |-> [user_id |-> "s.user_id = ", group_id |-> "ug.group_id = "],
   getUserPerformance |-> [user_id |-> "u.id = ", group_id |-> ""],
   getGroupPerformance |-> [user_id |-> "", group_id |-> "g.id = "]]

\* The call with the ids that are 0 not given.
C25_Unfiltered(call) ==
  [call EXCEPT !.args =
     [a \in DOMAIN call.args |->
        IF \E f \in C25_ZeroIds : C25_ArgOf[f] = a THEN {} ELSE call.args[a]]]

\* C25: a request with user_id=0 or group_id=0 is not rejected and the
\* query function gets 0; the statement it builds has no condition and no
\* parameter for that id (it is the statement of the request without the
\* id), and the result is the one of the request without the id.
C25_ZeroIdDropped ==
  (Received /\ C25_ZeroIds # {}) =>
    /\ responses # <<>> => ErrorCode(responses[1]) \notin ValidationCodes
    /\ Len(calls) = 1 /\ Len(sent) = 1
    /\ \A f \in C25_ZeroIds :
         /\ calls[1].args[C25_ArgOf[f]] = {0}
         /\ \A k \in DOMAIN sent[1].text :
              sent[1].text[k].kind = "sql" =>
                sent[1].text[k].text # C25_Column[calls[1].fn][f]
    /\ {sent[1]} = QueryOf(C25_Unfiltered(calls[1]))
    /\ Len(sent[1].params) =
         Cardinality({f \in DOMAIN req.query : Present(req.query[f])
                                                 /\ f # "granularity"})
           - Cardinality(C25_ZeroIds)
    /\ outcome.kind = "resolved" =>
         outcome \in QueryFunction(db, C25_Unfiltered(calls[1]))

\* A timeseries request with user_id=0 on a database with a sale of each
\* user, answered with both sales.
C25_Witness ==
  /\ pc = "done" /\ req.route = "timeseries" /\ outcome.kind = "resolved"
  /\ req.query.user_id = Str(<<"0">>)
  /\ {Val(db.sales)[i].user_id : i \in DOMAIN Val(db.sales)} = {1, 2}
  /\ C18_Sum([i \in DOMAIN C16_Data |-> C16_Data[i].sale_count]) = 2

\* The sales dated in the current range, and those dated in the previous
\* range, of the comparison request.
C26_InCurrent == C17_SalesIn(req.query.current_start.s, req.query.current_end.s)

C26_InPrevious == C17_SalesIn(req.query.previous_start.s, req.query.previous_end.s)

\* The sum of the amounts of sales of the database.
C26_Revenue(indices) ==
  LET sales == Val(db.sales)
      RECURSIVE sum(_)
      sum(S) == IF S = {} THEN 0
                ELSE LET i == CHOOSE x \in S : TRUE IN sales[i].amount + sum(S \ {i})
  IN  sum(indices)

\* C26: in the comparison a request is answered with, the current block
\* counts the sales dated in the current range and the previous block the
\* sales dated in the previous range and not in the current one: no sale is
\* counted twice, and a sale in both ranges is counted as current.
C26_CountedOnce ==
  C22_Compared =>
    /\ C16_Data.current.sale_count = Cardinality(C26_InCurrent)
    /\ C16_Data.current.total_revenue = C26_Revenue(C26_InCurrent)
    /\ C16_Data.previous.sale_count = Cardinality(C26_InPrevious \ C26_InCurrent)
    /\ C16_Data.previous.total_revenue = C26_Revenue(C26_InPrevious \ C26_InCurrent)
    /\ C16_Data.current.sale_count + C16_Data.previous.sale_count
         = Cardinality(C26_InCurrent \cup C26_InPrevious)

\* Overlapping ranges: a sale dated in both, and a previous block with
\* fewer sales than are dated in the previous range.
C26_Witness ==
  /\ C22_Compared
  /\ C26_InCurrent \cap C26_InPrevious # {}
  /\ C16_Data.previous.sale_count < Cardinality(C26_InPrevious)
  /\ C16_Data.current.sale_count = Cardinality(C26_InCurrent)

\* A sale of the database matches the date filter of the summary request.
C27_Matching ==
  LET sales == Val(db.sales)
  IN  {i \in DOMAIN sales :
         /\ Present(req.query.start_date) =>
              DayOrd(sales[i].date) >= DateNumber(req.query.start_date.s)
         /\ Present(req.query.end_date) =>
              DayOrd(sales[i].date) <= DateNumber(req.query.end_date.s)}

\* The TypeError of a method called on null.
C27_TypeErrors ==
  {"TypeError: Cannot read properties of null (reading 'toFixed')",
   "TypeError: Cannot read properties of null (reading 'toISOString')"}

\* C27: a summary request whose date filter no sale matches (an empty sales
\* table included) gets no success response: getSummaryStats throws a
\* TypeError on the row of NULLs, and the request is answered 500
\* INTERNAL_ERROR.
C27_EmptySummaryFails ==
  (Received /\ req.route = "summary" /\ calls # <<>> /\ C27_Matching = {}) =>
    /\ \A end \in QueryFunction(db, calls[1]) :
         end.kind = "rejected" /\ end.err \in C27_TypeErrors
    /\ \A i \in DOMAIN responses : responses[i].body.success = FALSE
    /\ pc = "done" => AnsweredWith(500, "INTERNAL_ERROR")

\* A summary from 2021-06-01 on a database whose sales are all of January:
\* the function has thrown and the answer is 500.
C27_Witness ==
  /\ req.route = "summary"
  /\ req.query.start_date = Str(D_JUN)
  /\ Val(db.sales) # <<>>
  /\ C27_Matching = {}
  /\ outcome.kind = "rejected" /\ outcome.err \in C27_TypeErrors
  /\ AnsweredWith(500, "INTERNAL_ERROR")

\* C28: once a run of seedDatabase has returned normally, the four tables
\* exist and hold the seed rows, whatever the runs before it, failed runs
\* included.
C28_SeededOnReturn ==
  seed.completed >= 1 =>
    \A k \in DOMAIN SeedTables :
      /\ IsSome(db[SeedTables[k]])
      /\ Val(db[SeedTables[k]]) = SeedRows[SeedTables[k]]

\* C29: the process listens only when the seeding of its run has returned:
\* a listening process has seeded, has not exited and listens from the step
\* at which seedDatabase had returned; a run whose seeding throws exits
\* with code 1, and a process that has exited does not listen.
C29_ListenAfterSeed ==
  /\ [](seed.listening =>
          /\ seed.completed >= 1
          /\ seed.exitCode = {}
          /\ seed.pc = StoppedPc)
  /\ [](seed.exitCode # {} => (seed.exitCode = {1} /\ ~seed.listening))
  /\ [][(~seed.listening /\ seed'.listening) => seed.pc = ReturnedPc]_vars
  /\ [][seed.pc = ThrownPc => (seed'.exitCode = {1} /\ ~seed'.listening)]_vars
  /\ [][(seed.exitCode # {} /\ seed'.listening) => seed'.started > seed.started]_vars

\* A first run whose seeding failed and exited with 1, and a second run
\* that is listening.
C29_Witness ==
  /\ seed.listening
  /\ seed.failed = 1
  /\ seed.completed = 1
  /\ seed.started = 2

\* The sales of members of the group of the request that match its date
\* and user filters: each sale once.
C30_SalesOfGroup ==
  LET sales == Val(db.sales)
      members == {Val(db.user_groups)[j].user_id :
                    j \in {k \in DOMAIN Val(db.user_groups) :
                             Val(db.user_groups)[k].group_id
                               = Val(JsParseInt(req.query.group_id.s))}}
  IN  {i \in DOMAIN sales :
         /\ sales[i].user_id \in members
         /\ Present(req.query.user_id) /\ req.query.user_id.s # <<"0">> =>
              sales[i].user_id = Val(JsParseInt(req.query.user_id.s))
         /\ Present(req.query.start_date) =>
              DayOrd(sales[i].date) >= DateNumber(req.query.start_date.s)
         /\ Present(req.query.end_date) =>
              DayOrd(sales[i].date) <= DateNumber(req.query.end_date.s)}

\* The period of the bucket of a sale, for the granularity of the request.
C30_PeriodOf(sale) ==
  formatDateString(DateTrunc(
    IF Present(req.query.granularity) THEN req.query.granularity.s ELSE GMonth,
    sale.date))

\* C30: the buckets a timeseries request with a group_id is answered with
\* count each sale of a member of the group once, whatever user_groups
\* holds: a bucket's sale_count and total_revenue are the number and the
\* sum of the distinct sales of members dated in it.
C30_EachSaleOnce ==
  (pc = "done" /\ req.route = "timeseries" /\ outcome.kind = "resolved"
     /\ Present(req.query.group_id) /\ req.query.group_id.s # <<"0">>) =>
    LET sales == Val(db.sales)
        inBucket(period) == {i \in C30_SalesOfGroup : C30_PeriodOf(sales[i]) = period}
    IN  /\ \A k \in DOMAIN C16_Data :
             /\ C16_Data[k].sale_count = Cardinality(inBucket(C16_Data[k].period))
             /\ C16_Data[k].total_revenue = C26_Revenue(inBucket(C16_Data[k].period))
        /\ \A i \in C30_SalesOfGroup :
             \E k \in DOMAIN C16_Data : C16_Data[k].period = C30_PeriodOf(sales[i])

====
